------------------------- MODULE OrderedConsumption -------------------------
(***************************************************************************)
(* What a consumer of an account's event log is promised, whatever leases, *)
(* retries, crashes and lost answers there are below: events are appended  *)
(* at the end, the cursor only moves forward and never past the end, and   *)
(* it never passes an event that has not been processed.                   *)
(***************************************************************************)
EXTENDS Integers

VARIABLES
    appended,   \* the last sequence in the log
    cursor,     \* the last sequence acknowledged
    processed   \* the sequences whose processing is finished

vars == <<appended, cursor, processed>>

Init == appended = 0 /\ cursor = 0 /\ processed = {}

Append ==
    /\ appended' = appended + 1
    /\ UNCHANGED <<cursor, processed>>

Consume ==
    /\ cursor <= cursor' /\ cursor' <= appended
    /\ processed \subseteq processed' /\ processed' \subseteq 1 .. appended
    /\ 1 .. cursor' \subseteq processed'
    /\ UNCHANGED appended

Next == Append \/ Consume

Spec == Init /\ [][Next]_vars

=============================================================================
