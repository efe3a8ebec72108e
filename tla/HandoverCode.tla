---------------------------- MODULE HandoverCode ----------------------------
(* The QR handover codes of one exchange (shared/handover_qr.py): a session *)
(* row per code, found by the hash of the code, and one pointer row that    *)
(* names the code in force and counts the codes ever issued.                *)
(*                                                                          *)
(* The module has the rows and the writes; ExchangeOffers has the handlers  *)
(* that read before them and put them into one transaction with the         *)
(* exchange.  A session is a model value: a code that was presented is the  *)
(* session its hash leads to, and a code nobody issued leads to none.       *)
(* `version' and `generation_count' grow together, so one field is both.    *)
EXTENDS Naturals

CONSTANTS
    Sessions,     \* codes that may be issued
    NoSession,
    IssueCap      \* QR_ISSUE_CAP: codes per exchange

ASSUME CapAssumption == IssueCap \in Nat
ASSUME NoSessionAssumption == NoSession \notin Sessions

VARIABLES
    session,      \* the status of each session row, "NONE" before its put
    pointer       \* the HANDOVER#QR row; version 0 when there is none

codeVars == <<session, pointer>>

SessionStatuses == {"NONE", "ACTIVE", "REVOKED", "EXPIRED", "CONSUMED"}
Pointers == [status: {"NONE", "ACTIVE", "REVOKED", "CONSUMED"},
             session: Sessions \cup {NoSession},
             version: 0..IssueCap]

CodeInit ==
    /\ session = [s \in Sessions |-> "NONE"]
    /\ pointer = [status |-> "NONE", session |-> NoSession, version |-> 0]

-----------------------------------------------------------------------------

\* The code in force, as every handler reads it: the pointer is ACTIVE and so
\* is the session its hash leads to.  The write that ends a pointer removes
\* the hash with it.
ActivePair ==
    IF pointer.status = "ACTIVE" /\ session[pointer.session] = "ACTIVE"
    THEN pointer.session
    ELSE NoSession

\* [mutant] the pointer is overwritten whatever its version
MintOverAnyVersion(old, version, s) ==
    /\ session[s] = "NONE"
    /\ version < IssueCap
    /\ session' = [t \in Sessions |-> CASE t = s -> "ACTIVE"
                                        [] t = old /\ t # s -> "REVOKED"
                                        [] OTHER -> session[t]]
    /\ pointer' = [status |-> "ACTIVE", session |-> s, version |-> version + 1]

\* The transaction of issue_qr: revoke the code that was in force when the
\* handler read it, put the new session, and move the pointer on from the
\* version that was read.
Mint(old, version, s) ==
    /\ session[s] = "NONE"
    /\ old # NoSession => session[old] = "ACTIVE"
    /\ pointer.version = version
    /\ version < IssueCap
    /\ session' = [t \in Sessions |-> CASE t = s -> "ACTIVE"
                                        [] t = old /\ t # s -> "REVOKED"
                                        [] OTHER -> session[t]]
    /\ pointer' = [status |-> "ACTIVE", session |-> s, version |-> version + 1]

\* [mutant] the session row is ended without asking whether it is the one in force
TerminalUnchecked(s, status) ==
    /\ session[s] # "NONE"
    /\ session' = [session EXCEPT ![s] = status]
    /\ pointer' = [pointer EXCEPT !.status = status]

\* _terminal_items: the session and the pointer that names it end together.
Terminal(s, status) ==
    /\ session[s] = "ACTIVE"
    /\ pointer.status = "ACTIVE"
    /\ pointer.session = s
    /\ session' = [session EXCEPT ![s] = status]
    /\ pointer' = [pointer EXCEPT !.status = status]

\* The items a manual handover, a cancel or an expiry adds to its transaction
\* for the code it read as in force; none when there was none.
RevokePair(s) ==
    IF s = NoSession THEN UNCHANGED codeVars ELSE Terminal(s, "REVOKED")

\* [mutant] the pointer is marked with the session
MarkPairExpired(s) ==
    /\ session[s] = "ACTIVE"
    /\ session' = [session EXCEPT ![s] = "EXPIRED"]
    /\ pointer' = [pointer EXCEPT !.status = "EXPIRED"]

\* A code that is presented after its time is marked; the pointer keeps it.
MarkExpired(s) ==
    /\ session[s] = "ACTIVE"
    /\ session' = [session EXCEPT ![s] = "EXPIRED"]
    /\ UNCHANGED pointer
=============================================================================
