--------------------------- MODULE GatewayAdmission ---------------------------
(***************************************************************************)
(* One gateway process admitting inference requests against the central    *)
(* holds: the request future (proxy.rs), the admission workers and their   *)
(* two-call protocol with one recovery (gateway billing.rs), the volatile  *)
(* usage queue (delivery.rs, usage.rs), and the control plane's answers.   *)
(*                                                                         *)
(* An HTTP call is sent, executed by the control plane and answered in     *)
(* separate steps.  The caller of a call may give up first: the request    *)
(* is then still on its way and may be executed later, or never, and its   *)
(* answer is lost.  Each request draws a fresh hold identity, so requests  *)
(* and holds are numbered alike.  The process may stop at any time and     *)
(* keeps nothing.  X_Variant defines a faulty form of X.                   *)
(***************************************************************************)
EXTENDS Integers, FiniteSets

CONSTANTS
    Requests,           \* inference requests, and the holds they draw
    Capacity,           \* slots of the usage queue
    AdmissionQueue,     \* capacity of the admission channel
    AdmissionWorkers    \* admission threads

ASSUME GatewayAssumption ==
    /\ IsFiniteSet(Requests)
    /\ Capacity \in Nat \ {0}
    /\ AdmissionQueue \in Nat \ {0} /\ AdmissionWorkers \in Nat \ {0}

VARIABLES
    up,         \* the gateway process runs
    draining,   \* usage queue: draining, or fatal after a refused credential
    caller,     \* the request future
    sent,       \* RequestContext.body_sent
    cmd,        \* the admission command
    decision,   \* what Protocol::admit decided
    slot,       \* the usage queue entry
    event,      \* the usage event in the entry
    net,        \* calls sent and not yet executed
    answer,     \* the answer to the call its caller waits in
    central     \* billing_reservations

admissionVars == <<up, draining, caller, sent, cmd, decision, slot, event, net,
                   answer, central>>

\* The future: it has its slot and reads the request, waits for admission, has
\* its answer in the channel, is admitted (meterable), has forwarded the body,
\* or is over.
Caller == {"new", "reading", "waiting", "answered", "admitted", "forwarded", "over"}

\* The calls of the admission protocol; a command waits in one of them.
Calls == {"reserve", "dispatch", "rereserve", "release"}
Reports == {"settle", "unresolved"}
Cmd == {"none", "queued", "decided", "over"} \cup Calls

\* "acked" and "lost" record how an accepted event left the queue.
Slot == {"none", "held", "event", "busy", "acked", "lost"}

Central == [state : {"none", "reserved", "dispatched", "released", "settled", "waived"},
            completion : {"none", "missing", "usage", "evidence"}]

NoHold == [state |-> "none", completion |-> "none"]

-----------------------------------------------------------------------------
(* The control plane: the new row and the answer of a call, as the money   *)
(* protocol defines them.  reserve_money may refuse a new identity, and    *)
(* settle_money may refuse a charge; a known identity is always replayed.  *)

Move(h, s) == [h EXCEPT !.state = s]

ReserveOutcomes(h) ==
    IF h.state = "none"
    THEN {<<Move(h, "reserved"), "reserved">>, <<h, "rejected">>}
    ELSE {<<h, h.state>>}

DispatchOutcomes(h) ==
    IF h.state \in {"reserved", "dispatched"}
    THEN {<<Move(h, "dispatched"), "dispatched">>}
    ELSE {<<h, "conflict">>}

ReleaseOutcomes(h) ==
    IF h.state \in {"reserved", "released"}
    THEN {<<Move(h, "released"), "released">>}
    ELSE {<<h, "conflict">>}

SettleOutcomes(h) ==
    IF h.state = "dispatched"
    THEN {<<[state |-> "settled", completion |-> "usage"], "ok">>, <<h, "refused">>}
    ELSE IF h = [state |-> "settled", completion |-> "usage"] THEN {<<h, "ok">>}
    ELSE {<<h, "refused">>}

UnresolvedOutcomes(h) ==
    IF h.state = "dispatched" THEN {<<[h EXCEPT !.completion = "missing"], "ok">>}
    ELSE IF h.state \in {"settled", "waived"} THEN {<<h, "ok">>}
    ELSE {<<h, "refused">>}

Outcomes(call, h) ==
    CASE call \in {"reserve", "rereserve"} -> ReserveOutcomes(h)
      [] call = "dispatch" -> DispatchOutcomes(h)
      [] call = "release" -> ReleaseOutcomes(h)
      [] call = "settle" -> SettleOutcomes(h)
      [] call = "unresolved" -> UnresolvedOutcomes(h)

-----------------------------------------------------------------------------
(* Slots.  The request context and the command share one Permit; the slot  *)
(* is given back when both have dropped it and no event was accepted.      *)

CommandDrops_Never(r, c) == slot[r]

CallerDrops_Alone(r, m) == IF slot[r] = "held" THEN "none" ELSE slot[r]

CallerDrops(r, m) ==
    IF slot[r] = "held" /\ m \in {"none", "over"} THEN "none" ELSE slot[r]

CommandDrops(r, c) ==
    IF slot[r] = "held" /\ c = "over" THEN "none" ELSE slot[r]

Occupied == {r \in Requests : slot[r] \in {"held", "event", "busy"}}

-----------------------------------------------------------------------------
(* The request future.                                                     *)

Queued == {r \in Requests : cmd[r] = "queued"}

ChannelHasRoom == Cardinality(Queued) < AdmissionQueue

\* request_filter takes a usage slot, or refuses the request at once.
Start(r) ==
    /\ up /\ caller[r] = "new"
    /\ ~draining /\ Cardinality(Occupied) < Capacity
    /\ caller' = [caller EXCEPT ![r] = "reading"]
    /\ slot' = [slot EXCEPT ![r] = "held"]
    /\ UNCHANGED <<up, draining, sent, cmd, decision, event, net, answer, central>>

\* Once the body is read and accepted, admit puts the command into the channel.
Enqueue(r) ==
    /\ up /\ caller[r] = "reading"
    /\ ChannelHasRoom
    /\ caller' = [caller EXCEPT ![r] = "waiting"]
    /\ cmd' = [cmd EXCEPT ![r] = "queued"]
    /\ UNCHANGED <<up, draining, sent, decision, slot, event, net, answer, central>>

\* The request is refused after it took its slot (its body is late or invalid,
\* the channel is full), the deadline of admit passes, or the client goes away.
\* An answer that is already in the channel is dropped with it.
GiveUp(r) ==
    /\ up /\ caller[r] \in {"reading", "waiting", "answered"}
    /\ caller' = [caller EXCEPT ![r] = "over"]
    /\ slot' = [slot EXCEPT ![r] = CallerDrops(r, cmd[r])]
    /\ UNCHANGED <<up, draining, sent, cmd, decision, event, net, answer, central>>

Admitted(r) ==
    /\ up /\ caller[r] = "answered"
    /\ caller' = [caller EXCEPT ![r] = "admitted"]
    /\ UNCHANGED <<up, draining, sent, cmd, decision, slot, event, net, answer,
                   central>>

\* request_body_filter releases the prepared body.
Forward(r) ==
    /\ up /\ caller[r] = "admitted" /\ ~sent[r]
    /\ caller' = [caller EXCEPT ![r] = "forwarded"]
    /\ sent' = [sent EXCEPT ![r] = TRUE]
    /\ UNCHANGED <<up, draining, cmd, decision, slot, event, net, answer,
                   central>>

\* logging submits the usage event under the slot: a settlement when usage is
\* known and within the limits, otherwise an unresolved report.  Usage is read
\* from the provider's response, which there is only for a forwarded body: an
\* admitted request that found no peer has none.
Finish(r) ==
    /\ up /\ caller[r] \in {"admitted", "forwarded"}
    /\ slot[r] = "held"
    /\ \E e \in Reports :
        /\ e = "settle" => caller[r] = "forwarded"
        /\ event' = [event EXCEPT ![r] = e]
    /\ caller' = [caller EXCEPT ![r] = "over"]
    /\ slot' = [slot EXCEPT ![r] = "event"]
    /\ UNCHANGED <<up, draining, sent, cmd, decision, net, answer, central>>

-----------------------------------------------------------------------------
(* The admission worker.                                                   *)

Active == {r \in Requests : cmd[r] \in Calls \cup {"decided"}}

Call(r, c) ==
    /\ cmd' = [cmd EXCEPT ![r] = c]
    /\ net' = [net EXCEPT ![r] = @ \cup {c}]
    /\ UNCHANGED <<decision, slot>>

Decide(r, d) ==
    /\ cmd' = [cmd EXCEPT ![r] = "decided"]
    /\ decision' = [decision EXCEPT ![r] = d]
    /\ UNCHANGED <<net, slot>>

\* The worker is through with the command and drops it.
EndCommand(r) ==
    /\ cmd' = [cmd EXCEPT ![r] = "over"]
    /\ slot' = [slot EXCEPT ![r] = CommandDrops(r, caller[r])]
    /\ UNCHANGED <<decision, net>>

\* A command whose caller is gone, or whose deadline has passed, is skipped;
\* its reply is dropped.
Dequeue(r) ==
    /\ up /\ cmd[r] = "queued"
    /\ Cardinality(Active) < AdmissionWorkers
    /\ \/ caller[r] = "waiting" /\ Call(r, "reserve")
       \/ EndCommand(r)
    /\ UNCHANGED <<up, draining, caller, sent, event, answer, central>>

\* The control plane executes a call.  Whoever still waits in it is answered.
Execute(r, call) ==
    /\ call \in net[r]
    /\ net' = [net EXCEPT ![r] = @ \ {call}]
    /\ \E o \in Outcomes(call, central[r]) :
        /\ central' = [central EXCEPT ![r] = o[1]]
        /\ answer' = [answer EXCEPT ![r] =
               IF cmd[r] = call \/ (slot[r] = "busy" /\ event[r] = call) THEN o[2] ELSE @]
    /\ UNCHANGED <<up, draining, caller, sent, cmd, decision, slot, event>>

\* Protocol::admit and Protocol::recover, by the call that was answered.
\* "none" is the failure of a call: refused connection, timeout, bad answer.
OnReserve(r, a) ==
    \/ a = "rejected" /\ Decide(r, "rejected")
    \/ a = "reserved" /\ caller[r] = "waiting" /\ Call(r, "dispatch")
    \/ a # "rejected" /\ Decide(r, "uncertain")

OnDispatch_Optimistic(r, a) ==
    Decide(r, IF a = "conflict" THEN "uncertain" ELSE "dispatched")

OnDispatch(r, a) ==
    Decide(r, IF a = "dispatched" THEN "dispatched" ELSE "uncertain")

OnRereserve(r, a) ==
    \/ a = "reserved" /\ Call(r, "release")
    \/ a # "reserved" /\ EndCommand(r)

OnAnswer(r, a) ==
    \/ cmd[r] = "reserve" /\ OnReserve(r, a)
    \/ cmd[r] = "dispatch" /\ OnDispatch(r, a)
    \/ cmd[r] = "rereserve" /\ OnRereserve(r, a)
    \/ cmd[r] = "release" /\ EndCommand(r)

Receive(r) ==
    /\ up /\ cmd[r] \in Calls /\ answer[r] # "none"
    /\ OnAnswer(r, answer[r])
    /\ answer' = [answer EXCEPT ![r] = "none"]
    /\ UNCHANGED <<up, draining, caller, sent, event, central>>

\* The HTTP client gives up after its timeout; the call is still out.
Timeout(r) ==
    /\ up /\ cmd[r] \in Calls
    /\ OnAnswer(r, "none")
    /\ answer' = [answer EXCEPT ![r] = "none"]
    /\ UNCHANGED <<up, draining, caller, sent, event, central>>

\* The decision is sent to the caller.  After an uncertain one, or when the
\* caller is gone, the worker tries once to take the hold back.
Reply(r) ==
    /\ up /\ cmd[r] = "decided"
    /\ caller' = [caller EXCEPT ![r] =
           IF @ # "waiting" THEN @
           ELSE IF decision[r] = "dispatched" THEN "answered" ELSE "over"]
    /\ IF decision[r] = "uncertain" \/ caller[r] # "waiting"
       THEN Call(r, "rereserve")
       ELSE /\ cmd' = [cmd EXCEPT ![r] = "over"]
            /\ slot' = [slot EXCEPT ![r] = CommandDrops(r, caller'[r])]
            /\ UNCHANGED <<decision, net>>
    /\ UNCHANGED <<up, draining, sent, event, answer, central>>

-----------------------------------------------------------------------------
(* The delivery worker.                                                    *)

Send(r) ==
    /\ up /\ slot[r] = "event"
    /\ slot' = [slot EXCEPT ![r] = "busy"]
    /\ net' = [net EXCEPT ![r] = @ \cup {event[r]}]
    /\ UNCHANGED <<up, draining, caller, sent, cmd, decision, event, answer, central>>

\* Delivered, or refused for good: 402, 404, 409 and the like.
Disposition_AnyAnswer(a) == "acked"

Disposition(a) == IF a = "ok" THEN "acked" ELSE "lost"

Delivered(r) ==
    /\ up /\ slot[r] = "busy" /\ answer[r] # "none"
    /\ slot' = [slot EXCEPT ![r] = Disposition(answer[r])]
    /\ answer' = [answer EXCEPT ![r] = "none"]
    /\ UNCHANGED <<up, draining, caller, sent, cmd, decision, event, net, central>>

\* No answer, 408, 425, 429 or 5xx: the event stays for another attempt.
Retry(r) ==
    /\ up /\ slot[r] = "busy"
    /\ slot' = [slot EXCEPT ![r] = "event"]
    /\ answer' = [answer EXCEPT ![r] = "none"]
    /\ UNCHANGED <<up, draining, caller, sent, cmd, decision, event, net, central>>

\* A refused credential or a wrong address: the event is dropped, and the
\* queue takes no more requests.
Misconfigured(r) ==
    /\ up /\ slot[r] = "busy" /\ event[r] \in net[r]
    /\ slot' = [slot EXCEPT ![r] = "lost"]
    /\ draining' = TRUE
    /\ UNCHANGED <<up, caller, sent, cmd, decision, event, net, answer, central>>

-----------------------------------------------------------------------------
(* The process and the operators.                                          *)

BeginDrain ==
    /\ up /\ ~draining
    /\ draining' = TRUE
    /\ UNCHANGED <<up, caller, sent, cmd, decision, slot, event, net, answer, central>>

\* The process stops: by a crash, or after a drain that ran into its deadline.
Stop ==
    /\ up
    /\ up' = FALSE
    /\ caller' = [r \in Requests |-> IF caller[r] = "new" THEN "new" ELSE "over"]
    /\ cmd' = [r \in Requests |-> IF cmd[r] = "none" THEN "none" ELSE "over"]
    /\ slot' = [r \in Requests |-> CASE slot[r] = "held" -> "none"
                                     [] slot[r] \in {"event", "busy"} -> "lost"
                                     [] OTHER -> slot[r]]
    /\ answer' = [r \in Requests |-> "none"]
    /\ UNCHANGED <<draining, sent, decision, event, net, central>>

\* decide_billing_review: two people settle a dispatched hold from evidence,
\* or waive a hold.
Review(r) ==
    /\ \/ /\ central[r].state \in {"reserved", "dispatched"}
          /\ central' = [central EXCEPT ![r] = Move(@, "waived")]
       \/ /\ central[r].state = "dispatched"
          /\ central' = [central EXCEPT ![r] =
                            [state |-> "settled", completion |-> "evidence"]]
    /\ UNCHANGED <<up, draining, caller, sent, cmd, decision, slot, event, net, answer>>

-----------------------------------------------------------------------------

AdmissionInit ==
    /\ up = TRUE /\ draining = FALSE
    /\ caller = [r \in Requests |-> "new"]
    /\ sent = [r \in Requests |-> FALSE]
    /\ cmd = [r \in Requests |-> "none"]
    /\ decision = [r \in Requests |-> "none"]
    /\ slot = [r \in Requests |-> "none"]
    /\ event = [r \in Requests |-> "none"]
    /\ net = [r \in Requests |-> {}]
    /\ answer = [r \in Requests |-> "none"]
    /\ central = [r \in Requests |-> NoHold]

Worker(r) == Dequeue(r) \/ Receive(r) \/ Timeout(r) \/ Reply(r)

Future(r) == Start(r) \/ Enqueue(r) \/ GiveUp(r) \/ Admitted(r) \/ Forward(r) \/ Finish(r)

Delivery(r) == Send(r) \/ Delivered(r) \/ Retry(r) \/ Misconfigured(r)

AdmissionNext ==
    \/ \E r \in Requests :
        \/ Future(r) \/ Worker(r) \/ Delivery(r) \/ Review(r)
        \/ \E call \in net[r] : Execute(r, call)
    \/ BeginDrain
    \/ Stop

AdmissionSpec == AdmissionInit /\ [][AdmissionNext]_admissionVars

\* Every thread of a running process goes on: HTTP calls, the reading of a body
\* and admissions have deadlines.  An admitted request owes nothing, for a
\* stream that keeps sending has no total deadline; nor do the control plane,
\* the network and the operators.
AdmissionFairness ==
    \A r \in Requests :
        /\ WF_admissionVars(Worker(r))
        /\ WF_admissionVars(Enqueue(r) \/ GiveUp(r) \/ Admitted(r))

AdmissionFairSpec == AdmissionSpec /\ AdmissionFairness

-----------------------------------------------------------------------------
(* Properties.                                                             *)

\* Every variable keeps its type, and the admission channel its bound.
TypeOK ==
    /\ Cardinality(Queued) <= AdmissionQueue
    /\ up \in BOOLEAN /\ draining \in BOOLEAN
    /\ caller \in [Requests -> Caller]
    /\ sent \in [Requests -> BOOLEAN]
    /\ cmd \in [Requests -> Cmd]
    /\ decision \in [Requests -> {"none", "rejected", "uncertain", "dispatched"}]
    /\ slot \in [Requests -> Slot]
    /\ event \in [Requests -> Reports \cup {"none"}]
    /\ net \in [Requests -> SUBSET (Calls \cup Reports)]
    /\ central \in [Requests -> Central]

\* Protocol::admit against Protocol::recover, with calls executed late and
\* answers lost: a body that was forwarded has a hold that was dispatched and
\* not released, and a charge from reported usage has a forwarded body.
MoneyFollowsInference ==
    \A r \in Requests :
        /\ sent[r] => central[r].state \in {"dispatched", "settled", "waived"}
        /\ central[r].completion = "usage" => sent[r]

\* Permit: while a request or its command is under way its slot is kept, so
\* that logging can always submit and the queue bounds abandoned admissions.
WorkHasSlot ==
    up => \A r \in Requests :
        (\/ caller[r] \in {"reading", "waiting", "answered", "admitted", "forwarded"}
         \/ cmd[r] \in Calls \cup {"queued", "decided"})
            => slot[r] = "held"

\* `deliver` and the retry loop: an event leaves the queue as delivered only
\* when the control plane holds what it reported, or a final state of its own.
DeliveredIsRecorded ==
    \A r \in Requests : slot[r] = "acked" =>
        \/ central[r] = [state |-> "settled", completion |-> "usage"]
        \/ /\ event[r] = "unresolved"
           /\ \/ central[r].completion = "missing"
              \/ central[r].state \in {"settled", "waived"}

\* Deadlines and the one recovery: although the control plane may never answer
\* and either side may be the last to let go, a slot that was taken is given
\* back, or belongs to an admitted request whose command is over.  How long
\* that request then runs is not bounded by the gateway.
AdmissionEnds ==
    \A r \in Requests :
        slot[r] = "held" ~>
            \/ slot[r] # "held"
            \/ caller[r] \in {"admitted", "forwarded"} /\ cmd[r] = "over"

\* The doc comment of BillingAdmission::new: an intent that could not be
\* recovered is visible in the central pending list, which pending_reservations
\* fills with the dispatched holds.
OrphansAreListed ==
    \A r \in Requests :
        (up /\ cmd[r] = "over" /\ caller[r] = "over" /\ net[r] = {})
            => central[r].state # "reserved"

=============================================================================
