------------------------------- MODULE Notices -------------------------------
(* In-app notices (shared/notifications.py, notification_api/service.py) of  *)
(* one event id, that is, one event code, subject and organization: the row  *)
(* of the event and the rows in the inboxes of its members.  The module that *)
(* extends this one emits the event and steps through its fan-out.  A notice *)
(* carries the created_at of the event row, which is part of the key of an   *)
(* inbox row; emissions of the same event id differ in it.                   *)
(*                                                                           *)
(* An operator marked [mutant] is a plausible mistake in the definition      *)
(* after it; no specification uses it.                                       *)
EXTENDS Naturals, FiniteSets

CONSTANTS
    Users,      \* the ACTIVE owners, admins and operators, numbered in the
                \* order of notices: owners and admins first
    FanoutCap,  \* FANOUT_CAP
    Stamps      \* the times at which the event can be emitted

ASSUME NoticesAssumption ==
    /\ Users \subseteq Nat /\ IsFiniteSet(Users)
    /\ FanoutCap \in Nat \ {0}

VARIABLES
    active,     \* whether the organization's status is ACTIVE
    event,      \* the EVENT row
    inbox       \* the INBOX rows of each user, by created_at

notices == <<active, event, inbox>>

NoEvent == [fanout |-> "NONE"]

Events == {NoEvent} \cup [fanout: {"PENDING", "COMPLETE"}, created_at: Stamps]

\* read_at and unread_key change together: unread until the one, gone with the other.
Inboxes == [Users -> [Stamps -> {"none", "unread", "read"}]]

NoticesInit ==
    /\ active = TRUE
    /\ event = NoEvent
    /\ inbox = [u \in Users |-> [t \in Stamps |-> "none"]]

\* An organization is created ACTIVE and nothing in the application changes
\* that: another status is set from outside, and is not taken back here.
Suspend ==
    /\ active
    /\ active' = FALSE
    /\ UNCHANGED <<event, inbox>>

\* The members who come before u in a fan-out that the actor caused.
Ahead(actor, u) == Cardinality({v \in Users \ {actor} : v < u})

\* [mutant] The members are cut before the actor is taken out.
CutWithActor(actor) ==
    IF active THEN {u \in Users : Cardinality({v \in Users : v < u}) < FanoutCap} \ {actor} ELSE {}

\* The first FanoutCap members but the actor, and nobody of an organization that
\* is not ACTIVE.
resolve_recipients(actor) ==
    IF active THEN {u \in Users \ {actor} : Ahead(actor, u) < FanoutCap} ELSE {}

\* The event row that is already there gives its time.
CreatedAt(at) == IF event = NoEvent THEN at ELSE event.created_at

NewEvent(at) == [fanout |-> "PENDING", created_at |-> at]

\* The put of the event row, conditional on its absence.
PutEvent(at) ==
    event' = IF event = NoEvent THEN NewEvent(at) ELSE event

\* [mutant] The inbox row is put without a condition.
OverwriteInbox(u, at) == inbox' = [inbox EXCEPT ![u][at] = "unread"]

\* A row that is already there is kept.
PutInbox(u, at) ==
    inbox' = [inbox EXCEPT ![u][at] = IF @ = "none" THEN "unread" ELSE @]

CompleteFanout == event' = [event EXCEPT !.fanout = "COMPLETE"]

SetRead(u, at) ==
    /\ inbox[u][at] = "unread"
    /\ inbox' = [inbox EXCEPT ![u][at] = "read"]
    /\ UNCHANGED <<active, event>>

\* The id of a notice names its event: the oldest row of that event is taken.
FindInboxItem(u, at) ==
    /\ inbox[u][at] # "none"
    /\ \A t \in Stamps : t < at => inbox[u][t] = "none"

MarkRead(u, at) == FindInboxItem(u, at) /\ SetRead(u, at)

\* One of the rows that the index of the unread ones returned.
MarkAllRead(u, at) == SetRead(u, at)

-----------------------------------------------------------------------------

Noticed(u) == {t \in Stamps : inbox[u][t] # "none"}

\* While the organization is ACTIVE, a fan-out marked COMPLETE has left out
\* only members who have at least FanoutCap others before them, counted for the
\* actor of some emission; and a user has the notice once, however many
\* emissions of the same event overlapped or died (_emit_notification_event).
NoticesReachAll ==
    /\ active /\ event.fanout = "COMPLETE" =>
           \E actor \in Users : \A u \in Users \ {actor} :
               Noticed(u) # {} \/ Ahead(actor, u) >= FanoutCap
    /\ \A u \in Users : \A s, t \in Noticed(u) : s = t

\* A notice that was read is never unread again: the fan-out of a repeated
\* emission puts a row only where there is none.
ReadStaysRead ==
    [][\A u \in Users, t \in Stamps : inbox[u][t] = "read" => inbox'[u][t] = "read"]_notices
=============================================================================
