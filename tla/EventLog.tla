------------------------------ MODULE EventLog ------------------------------
(***************************************************************************)
(* The event log of one account, billing_events, which EventWorker and     *)
(* BillingFeed consume.  append_event numbers the events under the account *)
(* lock, so the log is the number of its last event.                       *)
(***************************************************************************)
EXTENDS Integers

CONSTANT MaxEvents  \* bound on the account's log

VARIABLE seq        \* last sequence of billing_events

Least(a, b) == IF a <= b THEN a ELSE b

=============================================================================
