----------------------------- MODULE BillingFeed -----------------------------
(***************************************************************************)
(* The cursor of one named consumer on one account's event log, polled and *)
(* acknowledged by several replicas of that consumer at once.  A request   *)
(* reads the cursor row without a lock, answers at once when nothing would *)
(* change, and otherwise locks the row, reads it again and decides anew:   *)
(* two actions, between which other requests run.                          *)
(*                                                                         *)
(* The consumer is external: it processes the page it was given, then      *)
(* acknowledges it with a later poll or on its own; it may restart, its    *)
(* answers may be lost, and it drops its page when the cursor has moved.   *)
(* The row of a first poll starts at 0, which is what a missing row means. *)
(* X_Variant defines a faulty form of X.                                   *)
(***************************************************************************)
EXTENDS EventLog

CONSTANTS
    Pollers,    \* replicas of the consumer
    Limits      \* page sizes they ask for

ASSUME BillingFeedAssumption ==
    /\ \A n \in Limits : n \in Nat \ {0}
    /\ MaxEvents \in Nat

VARIABLES
    row,        \* the billing_consumers row
    request,    \* a poll or acknowledgement between its two reads
    hand,       \* the page a replica holds: (after, last], the `acknowledged`
                \* of its answer, and whether it is processed
    processed   \* sequences that some replica has finished processing

feedVars == <<seq, row, request, hand, processed>>

Sequence == 0 .. MaxEvents

\* The ack member of a request; NoAck is its absence.
Ack == [expected : Sequence, sequence : Sequence]
NoAck == [expected |-> -1, sequence |-> -1]

NoRequest == [kind |-> "none", ack |-> NoAck, limit |-> 0]
EmptyHand == [expected |-> 0, after |-> 0, last |-> 0, done |-> FALSE]

Refused == -1

-----------------------------------------------------------------------------
(* The decision both reads make.                                           *)

Acknowledged_Blind(ack) ==
    IF ack = NoAck THEN row.acknowledged
    ELSE IF ack.sequence > row.delivered THEN Refused
    ELSE ack.sequence

\* A duplicate of the current acknowledgement is accepted, any other must
\* start from the cursor, go forward and stay within what was delivered.
Acknowledged(ack) ==
    IF ack = NoAck \/ ack.sequence = row.acknowledged THEN row.acknowledged
    ELSE IF \/ ack.expected # row.acknowledged
            \/ ack.sequence < row.acknowledged
            \/ ack.sequence > row.delivered
         THEN Refused
    ELSE ack.sequence

Greatest(a, b) == IF a <= b THEN b ELSE a

\* The page is (after, last], the events behind the acknowledgement.
PageAfter(ack) == Acknowledged(ack)

PageLast(ack, limit) == Least(PageAfter(ack) + limit, Greatest(seq, PageAfter(ack)))

Delivered_Rewinds(ack, limit) ==
    IF PageLast(ack, limit) > PageAfter(ack) THEN PageLast(ack, limit)
    ELSE row.delivered

Delivered(ack, limit) ==
    IF PageLast(ack, limit) > PageAfter(ack)
    THEN Greatest(row.delivered, PageLast(ack, limit))
    ELSE row.delivered

Page(ack, limit) ==
    [acknowledged |-> Acknowledged(ack), delivered |-> Delivered(ack, limit)]

\* The answer reaches the replica, or it is lost and the replica keeps what it
\* had.  An empty page leaves it with nothing to process.
Answer(p, ack, limit) ==
    \/ hand' = [hand EXCEPT ![p] = [expected |-> Acknowledged(ack),
                                    after |-> PageAfter(ack),
                                    last |-> PageLast(ack, limit),
                                    done |-> FALSE]]
    \/ UNCHANGED hand

\* 409: the replica drops its page.
Conflict(p) == hand' = [hand EXCEPT ![p] = EmptyHand]

Done(p) == request' = [request EXCEPT ![p] = NoRequest]

\* The acknowledgements a replica may send: of the page it has processed.
Acks(p) ==
    IF hand[p].done
    THEN {[expected |-> hand[p].expected, sequence |-> hand[p].last]}
    ELSE {}

-----------------------------------------------------------------------------
(* poll_billing_events.                                                    *)

PollRead(p, ack, limit) ==
    /\ request[p] = NoRequest
    /\ \/ /\ Acknowledged(ack) = Refused
          /\ Conflict(p)
          /\ UNCHANGED request
       \/ /\ Acknowledged(ack) # Refused
          /\ Page(ack, limit) = row
          /\ Answer(p, ack, limit)
          /\ UNCHANGED request
       \/ /\ Acknowledged(ack) # Refused
          /\ Page(ack, limit) # row
          /\ request' = [request EXCEPT ![p] =
                            [kind |-> "poll", ack |-> ack, limit |-> limit]]
          /\ UNCHANGED hand
    /\ UNCHANGED <<seq, row, processed>>

PollCommit(p) ==
    LET ack == request[p].ack
        limit == request[p].limit
    IN  /\ request[p].kind = "poll"
        /\ \/ /\ Acknowledged(ack) = Refused
              /\ Conflict(p)
              /\ UNCHANGED row
           \/ /\ Acknowledged(ack) # Refused
              /\ row' = Page(ack, limit)
              /\ Answer(p, ack, limit)
        /\ Done(p)
        /\ UNCHANGED <<seq, processed>>

-----------------------------------------------------------------------------
(* ack_billing_events.  Its answer, lost or not, tells the replica nothing *)
(* that it needs: it keeps its page and may acknowledge it again.          *)

AckRead(p, ack) ==
    /\ request[p] = NoRequest
    /\ \/ /\ Acknowledged(ack) = Refused
          /\ Conflict(p)
          /\ UNCHANGED request
       \/ /\ Acknowledged(ack) \notin {Refused, row.acknowledged}
          /\ request' = [request EXCEPT ![p] =
                            [kind |-> "ack", ack |-> ack, limit |-> 0]]
          /\ UNCHANGED hand
    /\ UNCHANGED <<seq, row, processed>>

AckCommit(p) ==
    LET next == Acknowledged(request[p].ack)
    IN  /\ request[p].kind = "ack"
        /\ \/ /\ next = Refused
              /\ Conflict(p)
              /\ UNCHANGED row
           \/ /\ next # Refused
              /\ row' = [row EXCEPT !.acknowledged = next]
              /\ UNCHANGED hand
        /\ Done(p)
        /\ UNCHANGED <<seq, processed>>

-----------------------------------------------------------------------------
(* The log and the consumer.                                               *)

\* append_event: the account lock is held to COMMIT, so sequences become
\* visible in order and without a gap.
FeedAppend ==
    /\ seq < MaxEvents
    /\ seq' = seq + 1
    /\ UNCHANGED <<row, request, hand, processed>>

Process(p) ==
    /\ ~hand[p].done /\ hand[p].last > hand[p].after
    /\ processed' = processed \cup (hand[p].after + 1 .. hand[p].last)
    /\ hand' = [hand EXCEPT ![p].done = TRUE]
    /\ UNCHANGED <<seq, row, request>>

Restart(p) ==
    /\ hand[p] # EmptyHand
    /\ hand' = [hand EXCEPT ![p] = EmptyHand]
    /\ UNCHANGED <<seq, row, request, processed>>

FeedInit ==
    /\ seq = 0
    /\ row = [acknowledged |-> 0, delivered |-> 0]
    /\ request = [p \in Pollers |-> NoRequest]
    /\ hand = [p \in Pollers |-> EmptyHand]
    /\ processed = {}

FeedNext ==
    \/ FeedAppend
    \/ \E p \in Pollers :
        \/ \E ack \in Acks(p) \cup {NoAck}, limit \in Limits : PollRead(p, ack, limit)
        \/ \E ack \in Acks(p) : AckRead(p, ack)
        \/ PollCommit(p)
        \/ AckCommit(p)
        \/ Process(p)
        \/ Restart(p)

FeedSpec == FeedInit /\ [][FeedNext]_feedVars

-----------------------------------------------------------------------------
(* Properties.                                                             *)

\* `page`: the watermarks are ordered, and no replica holds an event beyond
\* `delivered`, so that acknowledging what it holds is never refused for that.
WatermarksOrdered ==
    /\ row.acknowledged <= row.delivered /\ row.delivered <= seq
    /\ \A p \in Pollers : hand[p].last <= row.delivered

FeedOC == INSTANCE OrderedConsumption
            WITH appended <- seq, cursor <- row.acknowledged

\* A consumer that follows the feed consumes the log in order.
FeedImplementsOrderedConsumption == FeedOC!Spec

=============================================================================
