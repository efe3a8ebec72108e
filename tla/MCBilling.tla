----------------------------- MODULE MCBilling ------------------------------
(* Small instances of Billing: two calls that overlap, and provider events  *)
(* and subscriptions of which one may overtake or replace the other.        *)
EXTENDS Billing, TLC

\* Activations that carry everything or nothing, a failed payment that still
\* says whether the subscription is to end, a cancellation with a period end.
MCPayloads ==
    [target: {"ACTIVE"}, current_end: {TRUE}, cancel_at_cycle_end: {TRUE}]
    \cup [target: {"ACTIVE"}, current_end: {FALSE}, cancel_at_cycle_end: {FALSE}]
    \cup [target: {"PAST_DUE"}, current_end: {FALSE}, cancel_at_cycle_end: {TRUE}]
    \cup [target: {"CANCELLED"}, current_end: {TRUE}, cancel_at_cycle_end: {FALSE}]

\* Invocations differ in nothing but what they remember.
Interchangeable == Permutations(Calls)
=============================================================================
