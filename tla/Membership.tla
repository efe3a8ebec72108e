----------------------------- MODULE Membership -----------------------------
(***************************************************************************)
(* The members of one organization.  Every operation queries all rows,     *)
(* decides on them, claims membership_epoch on the organization row and    *)
(* then writes one row, or two when an invitation is accepted.  The epoch  *)
(* is read after the rows, so the claim orders the writes and does not     *)
(* protect what was decided; the condition on the row's previous role and  *)
(* status does, for that one row.                                          *)
(*                                                                         *)
(* call holds what a handler in flight remembers; Crash loses it.          *)
(*                                                                         *)
(* An operator marked [mutant] is a plausible mistake in the definition    *)
(* after it; no specification uses it.                                     *)
(***************************************************************************)
EXTENDS Naturals

CONSTANTS
    Users,       \* Cognito subjects; each has one verified email
    Invites,     \* the keys invite-<hash of email>
    InviteOf,    \* the key of a user's email
    Owners,      \* users whose row is an OWNER from the start
    Assignable,  \* the roles that are asked for, of ASSIGNABLE_ROLES
    Calls,       \* operations that may be in flight at once
    MaxEpoch     \* bound: successful claims of membership_epoch

Keys == Users \cup Invites

ASSUME KeysDisjoint == Users \cap Invites = {}

ASSUME InviteOfType ==
    /\ InviteOf \in [Users -> Invites]
    /\ \A u, v \in Users : InviteOf[u] = InviteOf[v] => u = v

ASSUME OwnersType == Owners \subseteq Users

ASSUME AssignableType == Assignable \subseteq {"ADMIN", "OPERATOR", "MEMBER"}

ASSUME MaxEpochType == MaxEpoch \in Nat

MANAGE_ROLES == {"ADMIN", "OWNER"}

Roles == Assignable \cup {"OWNER"}

VARIABLES
    row,    \* the OrganizationMembers table
    epoch,  \* membership_epoch of the organization; 0 when it is absent
    call    \* the operations in flight

vars == <<row, epoch, call>>

-----------------------------------------------------------------------------

NoRow == [role |-> "NONE", status |-> "NONE"]

Member == [role: Roles, status: {"ACTIVE", "PENDING", "INACTIVE"}]

Idle == [step |-> "idle"]

Operations == {"invite_member", "change_role", "deactivate_member",
               "reactivate_member", "accept_invitation"}

\* Steps: authorized, then rows read and guards passed (guarded), then epoch
\* read (claiming), then epoch won (claimed), then, for an acceptance whose
\* member exists, the invitation still to be consumed (admitted).
MemberCall == [step: {"authorized", "guarded", "claiming", "claimed", "admitted"},
               actor: Users, as: Roles \cup {"NONE"}, op: Operations \cup {"none"},
               target: Keys, seen: {NoRow} \cup Member, new: {NoRow} \cup Member,
               epoch: 0..MaxEpoch]

IsInvitation(k) == k \in Invites

ActiveOwners == {k \in Keys : row[k].role = "OWNER" /\ row[k].status = "ACTIVE"}

\* [mutant] Only a new role is guarded, not a deactivation.
OwnerGuardOnRole(as, k, new) ==
    /\ row[k].role = "OWNER" /\ new.role # "OWNER" => as = "OWNER"
    /\ ActiveOwners \subseteq {k} /\ k \in ActiveOwners => new.role = "OWNER"

\* _guard_owner: only an owner changes an owner, and never the last active one.
OwnerGuard(as, k, new) ==
    /\ row[k].role = "OWNER" => as = "OWNER"
    /\ ActiveOwners \subseteq {k} /\ k \in ActiveOwners =>
           new.role = "OWNER" /\ new.status = "ACTIVE"

-----------------------------------------------------------------------------

Init ==
    /\ row = [k \in Keys |-> IF k \in Owners THEN [role |-> "OWNER", status |-> "ACTIVE"]
                                             ELSE NoRow]
    /\ epoch = 0
    /\ call = [c \in Calls |-> Idle]

\* authorize(): the actor is an ACTIVE admin or owner of this organization.
Authorize(c, u) ==
    /\ call[c] = Idle
    /\ row[u].status = "ACTIVE"
    /\ row[u].role \in MANAGE_ROLES
    /\ call' = [call EXCEPT ![c] =
                   [step |-> "authorized", actor |-> u, as |-> row[u].role,
                    op |-> "none", target |-> u, seen |-> NoRow, new |-> NoRow,
                    epoch |-> 0]]
    /\ UNCHANGED <<row, epoch>>

\* The rows were queried and every guard passed: the call goes on to its claim.
Decide(c, op, k, new) ==
    call' = [call EXCEPT ![c] = [@ EXCEPT !.step = "guarded", !.op = op,
                                          !.target = k, !.seen = row[k], !.new = new]]

\* An email is invited once: a used or revoked invitation keeps its row.
ReadInvite(c, k, role) ==
    /\ call[c].step = "authorized"
    /\ IsInvitation(k)
    /\ row[k] = NoRow
    /\ Decide(c, "invite_member", k, [role |-> role, status |-> "PENDING"])
    /\ UNCHANGED <<row, epoch>>

\* Invitation rows can be the target too.
ReadChangeRole(c, k, role) ==
    /\ call[c].step = "authorized"
    /\ row[k] # NoRow
    /\ k # call[c].actor
    /\ row[k].status # "INACTIVE"
    /\ row[k].role # role
    /\ OwnerGuard(call[c].as, k, [row[k] EXCEPT !.role = role])
    /\ Decide(c, "change_role", k, [row[k] EXCEPT !.role = role])
    /\ UNCHANGED <<row, epoch>>

\* Revoking a PENDING invitation is a deactivation as well.
ReadDeactivate(c, k) ==
    /\ call[c].step = "authorized"
    /\ row[k] # NoRow
    /\ k # call[c].actor
    /\ row[k].status # "INACTIVE"
    /\ OwnerGuard(call[c].as, k, [row[k] EXCEPT !.status = "INACTIVE"])
    /\ Decide(c, "deactivate_member", k, [row[k] EXCEPT !.status = "INACTIVE"])
    /\ UNCHANGED <<row, epoch>>

ReadReactivate(c, k) ==
    /\ call[c].step = "authorized"
    /\ ~IsInvitation(k)
    /\ row[k].status = "INACTIVE"
    /\ k # call[c].actor
    /\ OwnerGuard(call[c].as, k, [row[k] EXCEPT !.status = "ACTIVE"])
    /\ Decide(c, "reactivate_member", k, [row[k] EXCEPT !.status = "ACTIVE"])
    /\ UNCHANGED <<row, epoch>>

\* No authorization: the verified email names the invitation.  An ACTIVE member
\* with the invited role only consumes it.  seen is here the invitation.
ReadAccept(c, u) ==
    LET k == InviteOf[u] IN
    /\ call[c] = Idle
    /\ row[k].status = "PENDING"
    /\ row[u].status = "ACTIVE" => row[u].role = row[k].role
    /\ call' = [call EXCEPT ![c] =
                   [step |-> IF row[u].status = "ACTIVE" THEN "admitted" ELSE "guarded",
                    actor |-> u, as |-> "NONE", op |-> "accept_invitation",
                    target |-> u, seen |-> row[k],
                    new |-> [role |-> row[k].role, status |-> "ACTIVE"],
                    epoch |-> 0]]
    /\ UNCHANGED <<row, epoch>>

ReadEpoch(c) ==
    /\ call[c].step = "guarded"
    /\ call' = [call EXCEPT ![c] = [@ EXCEPT !.step = "claiming", !.epoch = epoch]]
    /\ UNCHANGED <<row, epoch>>

\* [mutant] The claim does not compare the epoch it read.
ClaimUnconditionally(c) ==
    /\ call[c].step = "claiming"
    /\ call[c].epoch < MaxEpoch
    /\ epoch' = call[c].epoch + 1
    /\ call' = [call EXCEPT ![c] = [@ EXCEPT !.step = "claimed",
                                             !.epoch = call[c].epoch + 1]]
    /\ UNCHANGED row

\* A call whose epoch is no longer the one it read answers 409.
Claim(c) ==
    /\ call[c].step = "claiming"
    /\ epoch < MaxEpoch
    /\ IF epoch = call[c].epoch
       THEN /\ epoch' = epoch + 1
            /\ call' = [call EXCEPT ![c] = [@ EXCEPT !.step = "claimed",
                                                     !.epoch = epoch + 1]]
       ELSE /\ call' = [call EXCEPT ![c] = Idle]
            /\ UNCHANGED epoch
    /\ UNCHANGED row

\* [mutant] _update is conditional on the role alone.
RoleUnchanged(k, seen) == row[k] # NoRow /\ row[k].role = seen.role

\* The condition of _update: role and status are the ones read.
Unchanged(k, seen) == row[k] # NoRow /\ row[k] = seen

\* A write whose condition no longer holds answers 409.
Write(c, possible) ==
    /\ row' = IF possible THEN [row EXCEPT ![call[c].target] = call[c].new] ELSE row
    /\ call' = [call EXCEPT ![c] = Idle]
    /\ UNCHANGED epoch

WriteInvitation(c) ==
    /\ call[c].step = "claimed"
    /\ call[c].op = "invite_member"
    /\ Write(c, row[call[c].target] = NoRow)

WriteRole(c) ==
    /\ call[c].step = "claimed"
    /\ call[c].op = "change_role"
    /\ Write(c, Unchanged(call[c].target, call[c].seen))

WriteStatus(c) ==
    /\ call[c].step = "claimed"
    /\ call[c].op \in {"deactivate_member", "reactivate_member"}
    /\ Write(c, Unchanged(call[c].target, call[c].seen))

WriteMember(c) == WriteInvitation(c) \/ WriteRole(c) \/ WriteStatus(c)

\* [mutant] The member's row is put over whatever is there.
AdmitOver(c) ==
    /\ call[c].step = "claimed"
    /\ call[c].op = "accept_invitation"
    /\ row' = [row EXCEPT ![call[c].target] = call[c].new]
    /\ call' = [call EXCEPT ![c] = [@ EXCEPT !.step = "admitted"]]
    /\ UNCHANGED epoch

\* The first write of an acceptance puts the member's row if there is none.
\* It does not look at the invitation again.
AdmitMember(c) ==
    /\ call[c].step = "claimed"
    /\ call[c].op = "accept_invitation"
    /\ IF row[call[c].target] = NoRow
       THEN /\ row' = [row EXCEPT ![call[c].target] = call[c].new]
            /\ call' = [call EXCEPT ![c] = [@ EXCEPT !.step = "admitted"]]
       ELSE /\ call' = [call EXCEPT ![c] = Idle]
            /\ UNCHANGED row
    /\ UNCHANGED epoch

\* [mutant] The used invitation gets a status nothing else knows.
ConsumeAsUsed(c) ==
    /\ call[c].step = "admitted"
    /\ LET k == InviteOf[call[c].actor] IN
       row' = IF Unchanged(k, call[c].seen)
              THEN [row EXCEPT ![k].status = "USED"] ELSE row
    /\ call' = [call EXCEPT ![c] = Idle]
    /\ UNCHANGED epoch

\* The second one marks the invitation as used.
ConsumeInvitation(c) ==
    /\ call[c].step = "admitted"
    /\ LET k == InviteOf[call[c].actor] IN
       row' = IF Unchanged(k, call[c].seen)
              THEN [row EXCEPT ![k].status = "INACTIVE"] ELSE row
    /\ call' = [call EXCEPT ![c] = Idle]
    /\ UNCHANGED epoch

\* The Lambda ends between two of its steps, or a guard refuses the call.
Crash(c) ==
    /\ call[c] # Idle
    /\ call' = [call EXCEPT ![c] = Idle]
    /\ UNCHANGED <<row, epoch>>

Next == \E c \in Calls :
    \/ ReadEpoch(c)
    \/ Claim(c)
    \/ WriteMember(c)
    \/ AdmitMember(c)
    \/ ConsumeInvitation(c)
    \/ Crash(c)
    \/ \E u \in Users : Authorize(c, u) \/ ReadAccept(c, u)
    \/ \E k \in Keys :
          \/ ReadDeactivate(c, k)
          \/ ReadReactivate(c, k)
          \/ \E role \in Assignable : ReadInvite(c, k, role) \/ ReadChangeRole(c, k, role)

Spec == Init /\ [][Next]_vars

-----------------------------------------------------------------------------
(* Properties.                                                             *)

\* Every row and every call in flight has the fields its handler wrote.
TypeOK ==
    /\ row \in [Keys -> {NoRow} \cup Member]
    /\ epoch \in 0..MaxEpoch
    /\ call \in [Calls -> {Idle} \cup MemberCall]

\* "The last active owner cannot be demoted or deactivated": the organization
\* always has an active owner.  It holds when there is one owner to start with,
\* which is all the application creates, and fails with two.
LastOwnerKept == ActiveOwners # {}

\* membership_epoch is a fencing token: two calls that won their claim never
\* hold the same epoch, and none holds one that was not given out.
EpochsDistinct == \A c, d \in Calls :
    /\ call[c].step = "claimed" => call[c].epoch <= epoch
    /\ call[c].step = "claimed" /\ call[d].step = "claimed" /\ c # d =>
           call[c].epoch # call[d].epoch

\* A change made by one call is never undone by another that decided before it:
\* a call that changes the role keeps the current status, one that changes the
\* status keeps the current role, and what is INACTIVE changes only when a
\* member is reactivated.  An acceptance in flight since before the removal does
\* not bring the member back, and nothing revives a used invitation.
NoLostUpdate ==
    [][\A k \in Keys : row[k] # NoRow /\ row'[k] # row[k] =>
          /\ row'[k].role = row[k].role \/ row'[k].status = row[k].status
          /\ row[k].status = "INACTIVE" =>
                /\ k \in Users
                /\ \E c \in Calls : /\ call[c].step = "claimed"
                                    /\ call[c].op = "reactivate_member"
                                    /\ call[c].target = k]_vars
=============================================================================
