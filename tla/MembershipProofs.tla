--------------------------- MODULE MembershipProofs ---------------------------
(***************************************************************************)
(* Proofs about Membership, for any number of users, calls and claims.     *)
(***************************************************************************)
EXTENDS Membership, TLAPS

USE DEF Operations

\* A row that exists is a member's or an invitation's.
LEMMA RowShape == ASSUME TypeOK, NEW k \in Keys
                  PROVE  /\ row[k] \in {NoRow} \cup Member
                         /\ row[k] = NoRow <=> row[k].status = "NONE"
                         /\ row[k] # NoRow => row[k] \in Member
BY DEF TypeOK, NoRow, Member

LEMMA CallShape == ASSUME TypeOK, NEW c \in Calls, call[c] # Idle
                   PROVE  call[c] \in MemberCall
BY DEF TypeOK

LEMMA InviteKeys == \A u \in Users : InviteOf[u] \in Invites /\ InviteOf[u] \in Keys
BY InviteOfType DEF Keys

-----------------------------------------------------------------------------
(* Type correctness.                                                       *)

\* Deciding a call keeps its type.
LEMMA DecideType ==
    ASSUME TypeOK, NEW c \in Calls, call[c] # Idle, NEW op \in Operations,
           NEW k \in Keys, NEW new \in Member, Decide(c, op, k, new)
    PROVE  call' \in [Calls -> {Idle} \cup MemberCall]
<1>1. call[c] \in MemberCall
  BY CallShape
<1>2. row[k] \in {NoRow} \cup Member
  BY RowShape
<1>3. [call[c] EXCEPT !.step = "guarded", !.op = op, !.target = k,
                      !.seen = row[k], !.new = new] \in MemberCall
  BY <1>1, <1>2 DEF MemberCall
<1> QED
  BY <1>3 DEF TypeOK, Decide

\* Every action that moves one call on, or writes one row, keeps TypeOK.
LEMMA TypeStep == TypeOK /\ [Next]_vars => TypeOK'
<1> SUFFICES ASSUME TypeOK, [Next]_vars PROVE TypeOK'
  OBVIOUS
<1>1. CASE UNCHANGED vars
  BY <1>1 DEF TypeOK, vars
<1>2. ASSUME NEW c \in Calls, ReadEpoch(c) PROVE TypeOK'
  <2>1. call[c] # Idle
    BY <1>2 DEF ReadEpoch, Idle
  <2>2. [call[c] EXCEPT !.step = "claiming", !.epoch = epoch] \in MemberCall
    BY <2>1, CallShape DEF MemberCall, TypeOK
  <2> QED
    BY <1>2, <2>2 DEF ReadEpoch, TypeOK
<1>3. ASSUME NEW c \in Calls, Claim(c) PROVE TypeOK'
  <2>1. call[c] # Idle
    BY <1>3 DEF Claim, Idle
  <2>2. CASE epoch = call[c].epoch
    <3>1. epoch + 1 \in 0..MaxEpoch
      BY <1>3, MaxEpochType DEF Claim, TypeOK
    <3>2. [call[c] EXCEPT !.step = "claimed", !.epoch = epoch + 1] \in MemberCall
      BY <2>1, <3>1, CallShape DEF MemberCall
    <3> QED
      BY <1>3, <2>2, <3>1, <3>2 DEF Claim, TypeOK
  <2>3. CASE epoch # call[c].epoch
    BY <1>3, <2>3 DEF Claim, TypeOK
  <2> QED
    BY <2>2, <2>3
<1>4. ASSUME NEW c \in Calls, WriteMember(c) PROVE TypeOK'
  <2>1. call[c] \in MemberCall
    BY <1>4, CallShape DEF WriteMember, WriteInvitation, WriteRole, WriteStatus, Write, Idle
  <2> QED
    BY <1>4, <2>1 DEF WriteMember, WriteInvitation, WriteRole, WriteStatus, Write, TypeOK,
       MemberCall
<1>5. ASSUME NEW c \in Calls, AdmitMember(c) PROVE TypeOK'
  <2>1. call[c] \in MemberCall
    BY <1>5, CallShape DEF AdmitMember, Idle
  <2>2. [call[c] EXCEPT !.step = "admitted"] \in MemberCall
    BY <2>1 DEF MemberCall
  <2> QED
    BY <1>5, <2>1, <2>2 DEF AdmitMember, TypeOK, MemberCall
<1>6. ASSUME NEW c \in Calls, ConsumeInvitation(c) PROVE TypeOK'
  <2> DEFINE k == InviteOf[call[c].actor]
  <2>1. call[c] \in MemberCall
    BY <1>6, CallShape DEF ConsumeInvitation, Idle
  <2>2. k \in Keys
    BY <2>1, InviteKeys DEF MemberCall
  <2>3. row[k] # NoRow => [row[k] EXCEPT !.status = "INACTIVE"] \in Member
    BY <2>2, RowShape DEF Member
  <2>4. row' = row \/ (row[k] # NoRow /\ row' = [row EXCEPT ![k].status = "INACTIVE"])
    BY <1>6 DEF ConsumeInvitation, Unchanged
  <2>5. row' \in [Keys -> {NoRow} \cup Member]
    BY <2>2, <2>3, <2>4 DEF TypeOK
  <2> QED
    BY <1>6, <2>5 DEF ConsumeInvitation, TypeOK
<1>7. ASSUME NEW c \in Calls, Crash(c) PROVE TypeOK'
  BY <1>7 DEF Crash, TypeOK
<1>8. ASSUME NEW c \in Calls, NEW u \in Users, Authorize(c, u) PROVE TypeOK'
  <2> DEFINE started == [step |-> "authorized", actor |-> u, as |-> row[u].role,
                         op |-> "none", target |-> u, seen |-> NoRow, new |-> NoRow,
                         epoch |-> 0]
  <2>1. row[u] \in Member
    BY <1>8, RowShape DEF Authorize, NoRow, Keys
  <2>2. started \in MemberCall
    BY <2>1, MaxEpochType DEF MemberCall, Member, Keys
  <2> QED
    BY <1>8, <2>2 DEF Authorize, TypeOK
<1>9. ASSUME NEW c \in Calls, NEW u \in Users, ReadAccept(c, u) PROVE TypeOK'
  <2> DEFINE k == InviteOf[u]
             new == [role |-> row[k].role, status |-> "ACTIVE"]
             started(s) == [step |-> s, actor |-> u, as |-> "NONE",
                            op |-> "accept_invitation", target |-> u, seen |-> row[k],
                            new |-> new, epoch |-> 0]
  <2>1. row[k] \in Member
    BY <1>9, RowShape, InviteKeys DEF ReadAccept, NoRow
  <2>2. new \in Member
    BY <2>1 DEF Member
  <2>3. started("admitted") \in MemberCall /\ started("guarded") \in MemberCall
    BY <2>1, <2>2, MaxEpochType DEF MemberCall, Keys
  <2>4. \E s \in {"admitted", "guarded"} : call' = [call EXCEPT ![c] = started(s)]
    BY <1>9 DEF ReadAccept
  <2> QED
    BY <1>9, <2>3, <2>4 DEF ReadAccept, TypeOK
<1>10. ASSUME NEW c \in Calls, NEW k \in Keys, ReadDeactivate(c, k) PROVE TypeOK'
  <2>1. [row[k] EXCEPT !.status = "INACTIVE"] \in Member
    BY <1>10, RowShape DEF ReadDeactivate, Member
  <2>2. call' \in [Calls -> {Idle} \cup MemberCall]
    BY <1>10, <2>1, DecideType DEF ReadDeactivate, Idle
  <2> QED
    BY <1>10, <2>2 DEF ReadDeactivate, TypeOK
<1>11. ASSUME NEW c \in Calls, NEW k \in Keys, ReadReactivate(c, k) PROVE TypeOK'
  <2>1. [row[k] EXCEPT !.status = "ACTIVE"] \in Member
    BY <1>11, RowShape DEF ReadReactivate, Member, NoRow
  <2>2. call' \in [Calls -> {Idle} \cup MemberCall]
    BY <1>11, <2>1, DecideType DEF ReadReactivate, Idle
  <2> QED
    BY <1>11, <2>2 DEF ReadReactivate, TypeOK
<1>12. ASSUME NEW c \in Calls, NEW k \in Keys, NEW role \in Assignable, ReadInvite(c, k, role)
       PROVE  TypeOK'
  <2>1. [role |-> role, status |-> "PENDING"] \in Member
    BY DEF Member, Roles
  <2>2. call' \in [Calls -> {Idle} \cup MemberCall]
    BY <1>12, <2>1, DecideType DEF ReadInvite, Idle
  <2> QED
    BY <1>12, <2>2 DEF ReadInvite, TypeOK
<1>13. ASSUME NEW c \in Calls, NEW k \in Keys, NEW role \in Assignable,
              ReadChangeRole(c, k, role)
       PROVE  TypeOK'
  <2>1. [row[k] EXCEPT !.role = role] \in Member
    BY <1>13, RowShape DEF ReadChangeRole, Member, Roles
  <2>2. call' \in [Calls -> {Idle} \cup MemberCall]
    BY <1>13, <2>1, DecideType DEF ReadChangeRole, Idle
  <2> QED
    BY <1>13, <2>2 DEF ReadChangeRole, TypeOK
<1> QED
  BY <1>1, <1>2, <1>3, <1>4, <1>5, <1>6, <1>7, <1>8, <1>9, <1>10, <1>11, <1>12, <1>13
     DEF Next

\* Every reachable state has the types the handlers rely on.
THEOREM TypeCorrect == Spec => []TypeOK
<1>1. Init => TypeOK
  BY OwnersType, MaxEpochType DEF Init, TypeOK, Member, Roles, Keys
<1> QED
  BY <1>1, TypeStep, PTL DEF Spec

-----------------------------------------------------------------------------
(* What a call in flight knows.                                            *)

\* How the row a call will write relates to the one it read.  Only a
\* reactivation starts from an INACTIVE row, and only a member's.
Decided(m) ==
    CASE m.op = "invite_member"     -> m.seen = NoRow
      [] m.op = "change_role"       -> /\ m.seen \in Member
                                       /\ m.seen.status # "INACTIVE"
                                       /\ m.new.status = m.seen.status
      [] m.op = "deactivate_member" -> /\ m.seen \in Member
                                       /\ m.seen.status # "INACTIVE"
                                       /\ m.new.role = m.seen.role
      [] m.op = "reactivate_member" -> /\ m.seen \in Member
                                       /\ m.target \in Users
                                       /\ m.new.role = m.seen.role
      [] m.op = "accept_invitation" -> /\ m.seen \in Member
                                       /\ m.seen.status = "PENDING"
                                       /\ m.new.role = m.seen.role
                                       /\ m.target = m.actor
      [] OTHER                      -> FALSE

\* A call without a decision is still at its authorization, one that admitted
\* a member is an acceptance.
CallInv == \A c \in Calls :
    /\ call[c].step \in {"guarded", "claiming", "claimed", "admitted"} =>
          Decided(call[c])
    /\ call[c].step = "admitted" => call[c].op = "accept_invitation"

\* A step leaves every other call alone, and takes the decision of its own one
\* along: it starts it, decides it, ends it, or changes only step and epoch.
LEMMA CallInvStep == TypeOK /\ CallInv /\ [Next]_vars => CallInv'
<1> SUFFICES ASSUME TypeOK, CallInv, [Next]_vars PROVE CallInv'
  OBVIOUS
<1> DEFINE Holds(m) == /\ m.step \in {"guarded", "claiming", "claimed", "admitted"} =>
                             Decided(m)
                       /\ m.step = "admitted" => m.op = "accept_invitation"
<1>a. ASSUME NEW c \in Calls, NEW m, call' = [call EXCEPT ![c] = m], Holds(m)
      PROVE  CallInv'
  BY <1>a DEF CallInv, TypeOK
<1>b. Holds(Idle)
  BY DEF Idle
<1> HIDE DEF Holds
<1>1. CASE UNCHANGED vars
  BY <1>1 DEF CallInv, vars
<1>2. ASSUME NEW c \in Calls, ReadEpoch(c) PROVE CallInv'
  <2> DEFINE m == [call[c] EXCEPT !.step = "claiming", !.epoch = epoch]
  <2>1. call[c] \in MemberCall
    BY <1>2, CallShape DEF ReadEpoch, Idle
  <2>2. Decided(call[c])
    BY <1>2 DEF ReadEpoch, CallInv
  <2>3. Holds(m)
    BY <2>1, <2>2 DEF Holds, Decided, MemberCall
  <2> QED
    BY <1>2, <2>3, <1>a DEF ReadEpoch
<1>3. ASSUME NEW c \in Calls, Claim(c) PROVE CallInv'
  <2> DEFINE m == [call[c] EXCEPT !.step = "claimed", !.epoch = epoch + 1]
  <2>1. call[c] \in MemberCall
    BY <1>3, CallShape DEF Claim, Idle
  <2>2. Decided(call[c])
    BY <1>3 DEF Claim, CallInv
  <2>3. Holds(m)
    BY <2>1, <2>2 DEF Holds, Decided, MemberCall
  <2>4. call' = [call EXCEPT ![c] = m] \/ call' = [call EXCEPT ![c] = Idle]
    BY <1>3 DEF Claim
  <2> QED
    BY <2>3, <2>4, <1>a, <1>b
<1>4. ASSUME NEW c \in Calls, WriteMember(c) PROVE CallInv'
  BY <1>4, <1>a, <1>b DEF WriteMember, WriteInvitation, WriteRole, WriteStatus, Write
<1>5. ASSUME NEW c \in Calls, AdmitMember(c) PROVE CallInv'
  <2> DEFINE m == [call[c] EXCEPT !.step = "admitted"]
  <2>1. call[c] \in MemberCall
    BY <1>5, CallShape DEF AdmitMember, Idle
  <2>2. Decided(call[c]) /\ call[c].op = "accept_invitation"
    BY <1>5 DEF AdmitMember, CallInv
  <2>3. Holds(m)
    BY <2>1, <2>2 DEF Holds, Decided, MemberCall
  <2>4. call' = [call EXCEPT ![c] = m] \/ call' = [call EXCEPT ![c] = Idle]
    BY <1>5 DEF AdmitMember
  <2> QED
    BY <2>3, <2>4, <1>a, <1>b
<1>6. ASSUME NEW c \in Calls, ConsumeInvitation(c) PROVE CallInv'
  BY <1>6, <1>a, <1>b DEF ConsumeInvitation
<1>7. ASSUME NEW c \in Calls, Crash(c) PROVE CallInv'
  BY <1>7, <1>a, <1>b DEF Crash
<1>8. ASSUME NEW c \in Calls, NEW u \in Users, Authorize(c, u) PROVE CallInv'
  <2> DEFINE m == [step |-> "authorized", actor |-> u, as |-> row[u].role,
                   op |-> "none", target |-> u, seen |-> NoRow, new |-> NoRow,
                   epoch |-> 0]
  <2>1. Holds(m)
    BY DEF Holds
  <2> QED
    BY <1>8, <2>1, <1>a DEF Authorize
<1>9. ASSUME NEW c \in Calls, NEW u \in Users, ReadAccept(c, u) PROVE CallInv'
  <2> DEFINE k == InviteOf[u]
             m(s) == [step |-> s, actor |-> u, as |-> "NONE",
                      op |-> "accept_invitation", target |-> u, seen |-> row[k],
                      new |-> [role |-> row[k].role, status |-> "ACTIVE"],
                      epoch |-> 0]
  <2>1. row[k] \in Member /\ row[k].status = "PENDING"
    BY <1>9, RowShape, InviteKeys DEF ReadAccept, NoRow
  <2>2. Holds(m("admitted")) /\ Holds(m("guarded"))
    BY <2>1 DEF Holds, Decided
  <2>3. \E s \in {"admitted", "guarded"} : call' = [call EXCEPT ![c] = m(s)]
    BY <1>9 DEF ReadAccept
  <2> QED
    BY <2>2, <2>3, <1>a
<1>c. ASSUME NEW c \in Calls, NEW op \in Operations, NEW k \in Keys, NEW new,
             call[c].step = "authorized", Decide(c, op, k, new),
             \A m : /\ m.op = op /\ m.target = k /\ m.seen = row[k] /\ m.new = new
                    => Decided(m)
      PROVE  CallInv'
  <2> DEFINE m == [call[c] EXCEPT !.step = "guarded", !.op = op, !.target = k,
                                  !.seen = row[k], !.new = new]
  <2>1. call[c] \in MemberCall
    BY <1>c, CallShape DEF Idle
  <2>2. m.op = op /\ m.target = k /\ m.seen = row[k] /\ m.new = new /\ m.step = "guarded"
    BY <2>1 DEF MemberCall
  <2>3. Holds(m)
    BY <1>c, <2>2 DEF Holds
  <2> QED
    BY <1>c, <2>3, <1>a DEF Decide
<1>10. ASSUME NEW c \in Calls, NEW k \in Keys, ReadDeactivate(c, k) PROVE CallInv'
  <2>1. row[k] \in Member /\ row[k].status # "INACTIVE"
    BY <1>10, RowShape DEF ReadDeactivate
  <2> QED
    BY <1>10, <2>1, <1>c DEF ReadDeactivate, Decided, Member
<1>11. ASSUME NEW c \in Calls, NEW k \in Keys, ReadReactivate(c, k) PROVE CallInv'
  <2>1. row[k] \in Member /\ k \in Users
    BY <1>11, RowShape DEF ReadReactivate, NoRow, IsInvitation, Keys
  <2> QED
    BY <1>11, <2>1, <1>c DEF ReadReactivate, Decided, Member
<1>12. ASSUME NEW c \in Calls, NEW k \in Keys, NEW role \in Assignable, ReadInvite(c, k, role)
       PROVE  CallInv'
  BY <1>12, <1>c DEF ReadInvite, Decided
<1>13. ASSUME NEW c \in Calls, NEW k \in Keys, NEW role \in Assignable,
              ReadChangeRole(c, k, role)
       PROVE  CallInv'
  <2>1. row[k] \in Member /\ row[k].status # "INACTIVE"
    BY <1>13, RowShape DEF ReadChangeRole
  <2> QED
    BY <1>13, <2>1, <1>c DEF ReadChangeRole, Decided, Member
<1> QED
  BY <1>1, <1>2, <1>3, <1>4, <1>5, <1>6, <1>7, <1>8, <1>9, <1>10, <1>11, <1>12, <1>13
     DEF Next
-----------------------------------------------------------------------------
(* The epoch.                                                              *)

\* Only a claim makes a call claimed or moves the epoch, and it gives the call
\* an epoch above all that were won before.
LEMMA EpochsStep == TypeOK /\ EpochsDistinct /\ [Next]_vars => EpochsDistinct'
<1> SUFFICES ASSUME TypeOK, EpochsDistinct, [Next]_vars PROVE EpochsDistinct'
  OBVIOUS
<1> DEFINE Won(d) == call[d].step = "claimed"
<1>1. ASSUME NEW c \in Calls, Claim(c), epoch = call[c].epoch PROVE EpochsDistinct'
  <2>1. call[c] \in MemberCall
    BY <1>1, CallShape DEF Claim, Idle
  <2>2. \A d \in Calls : Won(d) => call[d].epoch \in Nat /\ call[d].epoch <= epoch
    BY CallShape DEF EpochsDistinct, Idle, MemberCall
  <2>3. epoch \in Nat /\ epoch' = epoch + 1
    BY <1>1 DEF Claim, TypeOK
  <2>4. call'[c].epoch = epoch'
    BY <1>1, <2>1, <2>3 DEF Claim, TypeOK, MemberCall
  <2>5. \A d \in Calls \ {c} : call'[d] = call[d]
    BY <1>1 DEF Claim, TypeOK
  <2> QED
    BY <2>2, <2>3, <2>4, <2>5 DEF EpochsDistinct
<1>2. ASSUME UNCHANGED epoch, \A d \in Calls : Won(d)' => call'[d] = call[d]
      PROVE  EpochsDistinct'
  BY <1>2 DEF EpochsDistinct
<1>3. CASE UNCHANGED vars
  BY <1>3, <1>2 DEF vars
<1>4. ASSUME NEW c \in Calls, NEW m, call' = [call EXCEPT ![c] = m], UNCHANGED epoch,
             m.step # "claimed"
      PROVE  EpochsDistinct'
  BY <1>4, <1>2 DEF TypeOK
<1>5. Idle.step # "claimed"
  BY DEF Idle
<1>6. ASSUME NEW c \in Calls, ReadEpoch(c) PROVE EpochsDistinct'
  <2> DEFINE m == [call[c] EXCEPT !.step = "claiming", !.epoch = epoch]
  <2>1. call[c] \in MemberCall
    BY <1>6, CallShape DEF ReadEpoch, Idle
  <2>2. m.step # "claimed"
    BY <2>1 DEF MemberCall
  <2>3. call' = [call EXCEPT ![c] = m] /\ UNCHANGED epoch
    BY <1>6 DEF ReadEpoch
  <2> HIDE DEF m
  <2> QED
    BY <2>2, <2>3, <1>4
<1>7. ASSUME NEW c \in Calls, Claim(c) PROVE EpochsDistinct'
  BY <1>7, <1>1, <1>4, <1>5 DEF Claim
<1>8. ASSUME NEW c \in Calls, \/ WriteMember(c) \/ ConsumeInvitation(c) \/ Crash(c)
      PROVE  EpochsDistinct'
  <2>1. call' = [call EXCEPT ![c] = Idle] /\ UNCHANGED epoch
    BY <1>8 DEF WriteMember, WriteInvitation, WriteRole, WriteStatus, Write,
       ConsumeInvitation, Crash
  <2> QED
    BY <2>1, <1>4, <1>5
<1>9. ASSUME NEW c \in Calls, AdmitMember(c) PROVE EpochsDistinct'
  <2> DEFINE m == [call[c] EXCEPT !.step = "admitted"]
  <2>1. call[c] \in MemberCall
    BY <1>9, CallShape DEF AdmitMember, Idle
  <2>2. m.step # "claimed"
    BY <2>1 DEF MemberCall
  <2>3. /\ call' = [call EXCEPT ![c] = m] \/ call' = [call EXCEPT ![c] = Idle]
        /\ UNCHANGED epoch
    BY <1>9 DEF AdmitMember
  <2> HIDE DEF m
  <2> QED
    BY <2>2, <2>3, <1>4, <1>5
<1>10. ASSUME NEW c \in Calls, NEW u \in Users, Authorize(c, u) \/ ReadAccept(c, u)
       PROVE  EpochsDistinct'
  <2>1. call'[c].step # "claimed"
    BY <1>10 DEF Authorize, ReadAccept, TypeOK
  <2>2. \A d \in Calls \ {c} : call'[d] = call[d]
    BY <1>10 DEF Authorize, ReadAccept, TypeOK
  <2>3. UNCHANGED epoch
    BY <1>10 DEF Authorize, ReadAccept
  <2> QED
    BY <2>1, <2>2, <2>3, <1>2
<1>11. ASSUME NEW c \in Calls, NEW op, NEW k, NEW new, call[c].step = "authorized",
              Decide(c, op, k, new), UNCHANGED epoch
       PROVE  EpochsDistinct'
  <2> DEFINE m == [call[c] EXCEPT !.step = "guarded", !.op = op, !.target = k,
                                  !.seen = row[k], !.new = new]
  <2>1. call[c] \in MemberCall
    BY <1>11, CallShape DEF Idle
  <2>2. m.step # "claimed"
    BY <2>1 DEF MemberCall
  <2>3. call' = [call EXCEPT ![c] = m]
    BY <1>11 DEF Decide
  <2> HIDE DEF m
  <2> QED
    BY <1>11, <2>2, <2>3, <1>4
<1>12. ASSUME NEW c \in Calls, NEW k \in Keys,
              \/ ReadDeactivate(c, k) \/ ReadReactivate(c, k)
              \/ \E role \in Assignable : ReadInvite(c, k, role) \/ ReadChangeRole(c, k, role)
       PROVE  EpochsDistinct'
  BY <1>12, <1>11 DEF ReadDeactivate, ReadReactivate, ReadInvite, ReadChangeRole
<1> QED
  BY <1>3, <1>6, <1>7, <1>8, <1>9, <1>10, <1>12 DEF Next

\* Two calls that won their claim never hold the same epoch.
THEOREM EpochsCorrect == Spec => []EpochsDistinct
<1>1. Init => EpochsDistinct
  BY DEF Init, EpochsDistinct, Idle
<1> QED
  BY <1>1, TypeCorrect, EpochsStep, PTL DEF Spec

-----------------------------------------------------------------------------
(* Lost updates.                                                           *)

\* A write lands on the row its call read, or on none; so it changes one field
\* of it, and an INACTIVE one only if that was what the call decided on.
LEMMA NoLostUpdateStep ==
    ASSUME TypeOK, CallInv, [Next]_vars, NEW k \in Keys, row[k] # NoRow, row'[k] # row[k]
    PROVE  /\ row'[k].role = row[k].role \/ row'[k].status = row[k].status
           /\ row[k].status = "INACTIVE" =>
                 /\ k \in Users
                 /\ \E c \in Calls : /\ call[c].step = "claimed"
                                     /\ call[c].op = "reactivate_member"
                                     /\ call[c].target = k
<1>1. PICK c \in Calls : WriteMember(c) \/ AdmitMember(c) \/ ConsumeInvitation(c)
  BY DEF Next, vars, ReadEpoch, Claim, Crash, Authorize, ReadAccept, ReadDeactivate,
         ReadReactivate, ReadInvite, ReadChangeRole
<1>2. call[c] \in MemberCall
  BY <1>1, CallShape DEF WriteMember, WriteInvitation, WriteRole, WriteStatus, Write,
     AdmitMember, ConsumeInvitation, Idle
<1>3. Decided(call[c])
  BY <1>1 DEF WriteMember, WriteInvitation, WriteRole, WriteStatus, Write, AdmitMember,
     ConsumeInvitation, CallInv
<1>4. CASE WriteMember(c)
  <2>1. /\ k = call[c].target
        /\ call[c].step = "claimed"
        /\ call[c].op # "accept_invitation"
        /\ row'[k] = call[c].new
        /\ row[k] = call[c].seen
        /\ call[c].op # "invite_member"
    BY <1>4, <1>2 DEF WriteMember, WriteInvitation, WriteRole, WriteStatus, Write,
       Unchanged, TypeOK, MemberCall
  <2>2. call[c].op \in {"change_role", "deactivate_member", "reactivate_member"}
    BY <1>3, <2>1 DEF Decided
  <2> QED
    BY <1>3, <2>1, <2>2 DEF Decided
<1>5. CASE AdmitMember(c)
  BY <1>5, <1>2 DEF AdmitMember, TypeOK, MemberCall
<1>6. CASE ConsumeInvitation(c)
  <2>1. /\ k = InviteOf[call[c].actor]
        /\ row[k] = call[c].seen
        /\ row'[k] = [row[k] EXCEPT !.status = "INACTIVE"]
    BY <1>6, <1>2, InviteKeys DEF ConsumeInvitation, Unchanged, TypeOK, MemberCall
  <2>2. call[c].seen \in Member /\ call[c].seen.status = "PENDING"
    BY <1>3, <1>6 DEF Decided, ConsumeInvitation, CallInv
  <2> QED
    BY <2>1, <2>2 DEF Member
<1> QED
  BY <1>1, <1>4, <1>5, <1>6

\* No change is undone by a call that decided before it.
THEOREM NoLostUpdateCorrect == Spec => NoLostUpdate
<1>1. Init => CallInv
  BY DEF Init, CallInv, Idle
<1>2. Spec => []CallInv
  BY <1>1, TypeCorrect, CallInvStep, PTL DEF Spec
<1> DEFINE A == \A k \in Keys : row[k] # NoRow /\ row'[k] # row[k] =>
                  /\ row'[k].role = row[k].role \/ row'[k].status = row[k].status
                  /\ row[k].status = "INACTIVE" =>
                        /\ k \in Users
                        /\ \E c \in Calls : /\ call[c].step = "claimed"
                                            /\ call[c].op = "reactivate_member"
                                            /\ call[c].target = k
<1>3. TypeOK /\ CallInv /\ [Next]_vars => [A]_vars
  BY NoLostUpdateStep
<1> QED
  BY <1>2, <1>3, TypeCorrect, PTL DEF Spec, NoLostUpdate

-----------------------------------------------------------------------------
(* The last owner.                                                         *)

\* The organization as the application creates it.
OneOwner == \E o \in Users : Owners = {o}

\* A call that acts as the owner is the owner's, so it cannot aim at the owner's
\* row; a call of anyone else is refused that row; and nothing writes OWNER.
Harmless(m) ==
    /\ m.as = "OWNER" => m.actor \in Owners
    /\ m.step \in {"guarded", "claiming", "claimed", "admitted"} =>
          /\ m.new.role # "OWNER"
          /\ m.op # "accept_invitation" => m.target \notin Owners

OwnerRows ==
    /\ \A k \in Owners : row[k] = [role |-> "OWNER", status |-> "ACTIVE"]
    /\ \A k \in Keys : row[k].role = "OWNER" => k \in Owners

OwnerInv == OwnerRows /\ \A c \in Calls : call[c] # Idle => Harmless(call[c])

\* The writes: none is aimed at the owner's row, none makes an owner.
LEMMA OwnerWrite ==
    ASSUME TypeOK, OwnerInv, NEW c \in Calls,
           WriteMember(c) \/ AdmitMember(c) \/ ConsumeInvitation(c)
    PROVE  OwnerRows'
<1>1. call[c] \in MemberCall /\ Harmless(call[c])
  BY CallShape DEF WriteMember, WriteInvitation, WriteRole, WriteStatus, Write,
     AdmitMember, ConsumeInvitation, Idle, OwnerInv
<1>2. ASSUME NEW k \in Keys \ Owners, NEW m, m.role # "OWNER",
             row' = [row EXCEPT ![k] = m] \/ row' = row
      PROVE  OwnerRows'
  BY <1>2, OwnersType DEF OwnerInv, OwnerRows, TypeOK, Keys
<1>u. row' = row => OwnerRows'
  BY DEF OwnerInv, OwnerRows
<1>3. CASE WriteMember(c)
  <2>1. call[c].new.role # "OWNER" /\ call[c].target \in Keys \ Owners
    BY <1>1, <1>3 DEF WriteMember, WriteInvitation, WriteRole, WriteStatus, Write,
       Harmless, MemberCall
  <2> QED
    BY <1>2, <1>u, <1>3, <2>1 DEF WriteMember, WriteInvitation, WriteRole, WriteStatus,
       Write
<1>4. CASE AdmitMember(c)
  <2>1. call[c].new.role # "OWNER"
    BY <1>1, <1>4 DEF AdmitMember, Harmless
  <2>2. row[call[c].target] = NoRow => call[c].target \in Keys \ Owners
    BY <1>1 DEF OwnerInv, OwnerRows, NoRow, MemberCall
  <2> QED
    BY <1>2, <1>u, <1>4, <2>1, <2>2 DEF AdmitMember
<1>5. CASE ConsumeInvitation(c)
  <2> DEFINE k == InviteOf[call[c].actor]
             m == [row[k] EXCEPT !.status = "INACTIVE"]
  <2>1. k \in Keys \ Owners
    BY <1>1, InviteKeys, OwnersType, KeysDisjoint DEF MemberCall
  <2>2. row[k].role # "OWNER" /\ row[k] \in {NoRow} \cup Member
    BY <2>1, RowShape DEF OwnerInv, OwnerRows
  <2>3. m.role # "OWNER"
    BY <2>2 DEF Member, NoRow
  <2>4. row' = [row EXCEPT ![k] = m] \/ row' = row
    BY <1>5 DEF ConsumeInvitation
  <2> HIDE DEF k, m
  <2> QED
    BY <1>2, <2>1, <2>3, <2>4
<1> QED
  BY <1>3, <1>4, <1>5

\* The guards: a call that passes them is harmless.
LEMMA OwnerInvStep ==
    ASSUME OneOwner, TypeOK, OwnerInv, [Next]_vars PROVE OwnerInv'
<1>1. PICK o \in Users : Owners = {o}
  BY DEF OneOwner
<1>2. /\ o \in Keys
      /\ row[o] = [role |-> "OWNER", status |-> "ACTIVE"]
      /\ \A k \in Keys : row[k].role = "OWNER" => k = o
  BY <1>1 DEF OwnerInv, OwnerRows, Keys
<1>a. ASSUME NEW c \in Calls, NEW m, call' = [call EXCEPT ![c] = m],
             m = Idle \/ Harmless(m), OwnerRows'
      PROVE  OwnerInv'
  BY <1>a DEF OwnerInv, TypeOK
<1>b. UNCHANGED row => OwnerRows'
  BY DEF OwnerInv, OwnerRows
<1>c. ASSUME NEW c \in Calls, NEW op, NEW k \in Keys \ {o}, NEW new, new.role # "OWNER",
             call[c].step = "authorized", Decide(c, op, k, new), UNCHANGED row
      PROVE  OwnerInv'
  <2> DEFINE m == [call[c] EXCEPT !.step = "guarded", !.op = op, !.target = k,
                                  !.seen = row[k], !.new = new]
  <2>1. call[c] \in MemberCall /\ Harmless(call[c])
    BY <1>c, CallShape DEF Idle, OwnerInv
  <2>2. Harmless(m)
    BY <1>1, <1>c, <2>1 DEF Harmless, MemberCall
  <2>3. call' = [call EXCEPT ![c] = m]
    BY <1>c DEF Decide
  <2> HIDE DEF m
  <2> QED
    BY <1>a, <1>b, <1>c, <2>2, <2>3
<1>d. ASSUME NEW c \in Calls, call[c].step = "authorized", NEW new,
             o # call[c].actor, OwnerGuard(call[c].as, o, new)
      PROVE  FALSE
  BY <1>1, <1>2, <1>d DEF OwnerGuard, OwnerInv, Harmless, Idle
<1>3. CASE UNCHANGED vars
  BY <1>3, <1>b DEF vars, OwnerInv
<1>4. ASSUME NEW c \in Calls, call[c].step \in {"guarded", "claiming", "claimed"}
      PROVE  call[c] \in MemberCall /\ Harmless(call[c])
  BY <1>4, CallShape DEF Idle, OwnerInv
<1>5. ASSUME NEW c \in Calls, ReadEpoch(c) PROVE OwnerInv'
  <2> DEFINE m == [call[c] EXCEPT !.step = "claiming", !.epoch = epoch]
  <2>1. Harmless(m)
    BY <1>5, <1>4 DEF ReadEpoch, Harmless, MemberCall
  <2>2. call' = [call EXCEPT ![c] = m] /\ UNCHANGED row
    BY <1>5 DEF ReadEpoch
  <2> HIDE DEF m
  <2> QED
    BY <2>1, <2>2, <1>a, <1>b
<1>6. ASSUME NEW c \in Calls, Claim(c) PROVE OwnerInv'
  <2> DEFINE m == [call[c] EXCEPT !.step = "claimed", !.epoch = epoch + 1]
  <2>1. Harmless(m)
    BY <1>6, <1>4 DEF Claim, Harmless, MemberCall
  <2>2. /\ call' = [call EXCEPT ![c] = m] \/ call' = [call EXCEPT ![c] = Idle]
        /\ UNCHANGED row
    BY <1>6 DEF Claim
  <2> HIDE DEF m
  <2> QED
    BY <2>1, <2>2, <1>a, <1>b
<1>7. ASSUME NEW c \in Calls, WriteMember(c) \/ AdmitMember(c) \/ ConsumeInvitation(c)
      PROVE  OwnerInv'
  <2>1. OwnerRows'
    BY <1>7, OwnerWrite
  <2>2. CASE AdmitMember(c)
    <3> DEFINE m == [call[c] EXCEPT !.step = "admitted"]
    <3>1. Harmless(m)
      BY <2>2, <1>4 DEF AdmitMember, Harmless, MemberCall
    <3>2. call' = [call EXCEPT ![c] = m] \/ call' = [call EXCEPT ![c] = Idle]
      BY <2>2 DEF AdmitMember
    <3> HIDE DEF m
    <3> QED
      BY <2>1, <3>1, <3>2, <1>a
  <2>3. CASE WriteMember(c) \/ ConsumeInvitation(c)
    BY <2>1, <2>3, <1>a DEF WriteMember, WriteInvitation, WriteRole, WriteStatus, Write,
       ConsumeInvitation
  <2> QED
    BY <1>7, <2>2, <2>3
<1>8. ASSUME NEW c \in Calls, Crash(c) PROVE OwnerInv'
  BY <1>8, <1>a, <1>b DEF Crash
<1>9. ASSUME NEW c \in Calls, NEW u \in Users, Authorize(c, u) PROVE OwnerInv'
  <2> DEFINE m == [step |-> "authorized", actor |-> u, as |-> row[u].role,
                   op |-> "none", target |-> u, seen |-> NoRow, new |-> NoRow,
                   epoch |-> 0]
  <2>1. Harmless(m)
    BY <1>1, <1>2 DEF Harmless, Keys
  <2> QED
    BY <1>9, <2>1, <1>a, <1>b DEF Authorize
<1>10. ASSUME NEW c \in Calls, NEW u \in Users, ReadAccept(c, u) PROVE OwnerInv'
  <2> DEFINE k == InviteOf[u]
             m(s) == [step |-> s, actor |-> u, as |-> "NONE",
                      op |-> "accept_invitation", target |-> u, seen |-> row[k],
                      new |-> [role |-> row[k].role, status |-> "ACTIVE"],
                      epoch |-> 0]
  <2>1. k # o /\ row[k].role # "OWNER"
    BY <1>2, InviteKeys, KeysDisjoint
  <2>2. Harmless(m("admitted")) /\ Harmless(m("guarded"))
    BY <2>1 DEF Harmless
  <2>3. \E s \in {"admitted", "guarded"} : call' = [call EXCEPT ![c] = m(s)]
    BY <1>10 DEF ReadAccept
  <2>4. UNCHANGED row
    BY <1>10 DEF ReadAccept
  <2> QED
    BY <2>2, <2>3, <2>4, <1>a, <1>b
<1>11. ASSUME NEW c \in Calls, NEW k \in Keys, ReadDeactivate(c, k) PROVE OwnerInv'
  <2> DEFINE new == [row[k] EXCEPT !.status = "INACTIVE"]
  <2>1. k # o
    BY <1>11, <1>d DEF ReadDeactivate
  <2>2. new.role # "OWNER"
    BY <1>2, <2>1, RowShape DEF Member, NoRow
  <2> QED
    BY <1>11, <1>c, <2>1, <2>2 DEF ReadDeactivate
<1>12. ASSUME NEW c \in Calls, NEW k \in Keys, ReadReactivate(c, k) PROVE OwnerInv'
  <2> DEFINE new == [row[k] EXCEPT !.status = "ACTIVE"]
  <2>1. k # o
    BY <1>2, <1>12 DEF ReadReactivate
  <2>2. new.role # "OWNER"
    BY <1>2, <2>1, RowShape DEF Member, NoRow
  <2> QED
    BY <1>12, <1>c, <2>1, <2>2 DEF ReadReactivate
<1>13. ASSUME NEW c \in Calls, NEW k \in Keys, NEW role \in Assignable, ReadInvite(c, k, role)
       PROVE  OwnerInv'
  <2>1. k # o
    BY <1>2, <1>13 DEF ReadInvite, NoRow
  <2>2. role # "OWNER"
    BY AssignableType
  <2> QED
    BY <1>13, <1>c, <2>1, <2>2 DEF ReadInvite
<1>14. ASSUME NEW c \in Calls, NEW k \in Keys, NEW role \in Assignable,
              ReadChangeRole(c, k, role)
       PROVE  OwnerInv'
  <2> DEFINE new == [row[k] EXCEPT !.role = role]
  <2>1. k # o
    BY <1>14, <1>d DEF ReadChangeRole
  <2>2. new.role # "OWNER"
    BY AssignableType, RowShape DEF Member, NoRow
  <2> QED
    BY <1>14, <1>c, <2>1, <2>2 DEF ReadChangeRole
<1> QED
  BY <1>3, <1>5, <1>6, <1>7, <1>8, <1>9, <1>10, <1>11, <1>12, <1>13, <1>14 DEF Next

\* An organization created with one owner always has an active owner, whatever
\* its members do at the same time.
THEOREM LastOwnerCorrect == OneOwner /\ Spec => []LastOwnerKept
<1> SUFFICES ASSUME OneOwner PROVE Spec => []LastOwnerKept
  OBVIOUS
<1>1. Init => OwnerInv
  <2>1. ASSUME Init PROVE OwnerRows
    <3>1. \A k \in Keys : row[k] = IF k \in Owners
                                  THEN [role |-> "OWNER", status |-> "ACTIVE"]
                                  ELSE [role |-> "NONE", status |-> "NONE"]
      BY <2>1 DEF Init, NoRow
    <3>2. Owners \subseteq Keys
      BY OwnersType DEF Keys
    <3> QED
      BY <3>1, <3>2 DEF OwnerRows
  <2>2. Init => \A c \in Calls : call[c] = Idle
    BY DEF Init
  <2> QED
    BY <2>1, <2>2 DEF OwnerInv
<1>2. OwnerInv => LastOwnerKept
  BY OwnersType DEF OneOwner, OwnerInv, OwnerRows, LastOwnerKept, ActiveOwners, Keys
<1>3. TypeOK /\ OwnerInv /\ [Next]_vars => OwnerInv'
  BY OwnerInvStep
<1> QED
  BY <1>1, <1>2, <1>3, TypeCorrect, PTL DEF Spec

==============================================================================
