---------------------------- MODULE HandoverDeal ----------------------------
(* What an exchange promises its two sides: one offer wins, once; the item  *)
(* of the winner passes, once, or the deal is called off; and a handover by *)
(* code takes the one code that is in force, which no earlier code is.      *)
EXTENDS FiniteSets

CONSTANTS Offers, NoOffer, Sessions, NoSession

VARIABLES
    deal,     \* "none", "open", "won", "passed" or "off"
    winner,   \* the offer that won
    code,     \* the code in force
    used,     \* the code the item was handed over with
    spent     \* codes that were in force once and can never be used again

vars == <<deal, winner, code, used, spent>>

Init ==
    /\ deal = "none"
    /\ winner = NoOffer
    /\ code = NoSession
    /\ used = NoSession
    /\ spent = {}

Open ==
    /\ deal = "none"
    /\ deal' = "open"
    /\ UNCHANGED <<winner, code, used, spent>>

Award(o) ==
    /\ deal = "open"
    /\ deal' = "won"
    /\ winner' = o
    /\ UNCHANGED <<code, used, spent>>

\* A new code takes the place of the one in force.
Issue(s) ==
    /\ deal = "won"
    /\ s \notin spent \cup {code}
    /\ code' = s
    /\ spent' = spent \cup ({code} \ {NoSession})
    /\ UNCHANGED <<deal, winner, used>>

\* Codes are given up; they do not come back.
Retire(S) ==
    /\ spent' = spent \cup S
    /\ code' = IF code \in S THEN NoSession ELSE code
    /\ UNCHANGED <<deal, winner, used>>

\* The item passes: by the code in force, or by hand when no code is asked for.
Pass(s) ==
    /\ deal = "won"
    /\ deal' = "passed"
    /\ s \in {code, NoSession}
    /\ used' = s
    /\ code' = NoSession
    /\ spent' \in {spent, spent \cup ({code} \ {NoSession})}
    /\ UNCHANGED winner

CallOff ==
    /\ deal \in {"open", "won"}
    /\ deal' = "off"
    /\ code' = NoSession
    /\ spent' \in {spent, spent \cup ({code} \ {NoSession})}
    /\ UNCHANGED <<winner, used>>

Next ==
    \/ Open
    \/ \E o \in Offers : Award(o)
    \/ \E s \in Sessions : Issue(s)
    \/ \E S \in SUBSET Sessions : Retire(S)
    \/ \E s \in Sessions \cup {NoSession} : Pass(s)
    \/ CallOff

Spec == Init /\ [][Next]_vars
=============================================================================
