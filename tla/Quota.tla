-------------------------------- MODULE Quota --------------------------------
(***************************************************************************)
(* Requests and tokens per minute of one API key.  Gateways with a Redis   *)
(* URL share one hash per minute, changed only by two Lua scripts; a       *)
(* gateway without one counts requests for itself.  Each gateway has one   *)
(* quota worker behind a bounded channel, which sends a command at most    *)
(* twice under the same identity.  A command whose reply does not come in  *)
(* time may have been executed, may never be, or may be executed later.  A *)
(* gateway that stops looks to Redis like its callers giving up.           *)
(* X_Variant defines a faulty form of X.                                   *)
(***************************************************************************)
EXTENDS Totals, Sequences

CONSTANTS
    Requests,       \* requests, and the identities of their reservations
    Gateways,
    Distributed,    \* the gateways configured with a Redis URL
    Asks,           \* the token counts a request may reserve
    Actuals,        \* the token counts it may turn out to use
    Limits,         \* the limits a key may be created with: [rpm, tpm]
    ChannelSize,    \* 1024 in the code
    MaxMinute,      \* bound: the last minute of any clock
    None            \* no request

ASSUME QuotaAssumption ==
    /\ IsFiniteSet(Requests) /\ None \notin Requests
    /\ Distributed \subseteq Gateways
    /\ Asks \subseteq Amount /\ Actuals \subseteq Amount
    /\ Limits \subseteq [rpm : Nat, tpm : Nat]
    /\ ChannelSize \in Nat /\ MaxMinute \in Nat

VARIABLES
    caller,     \* the proxied request: what it waits for
    window,     \* the minute its reservation is for
    gateway,    \* the gateway that carries it
    asked,      \* ARGV[3] of reserve, ARGV[1] of settle
    actual,     \* ARGV[2] of settle
    queue,      \* each worker's channel
    work,       \* the command a worker has received
    tries,      \* its attempts left
    wire,       \* per script: sends the worker gave up on, not yet executed
    hash,       \* Redis: the hash of each minute
    limit,      \* the limits of the key
    now,        \* Redis TIME, in minutes
    local,      \* DynamicKeySet::rate_windows of each gateway
    rewound     \* history: the gateways whose clock went back past a minute
                \* they counted in

vars == <<caller, window, gateway, asked, actual, queue, work, tries, wire,
          hash, limit, now, local, rewound>>

call == <<window, gateway, asked, limit>>
channel == <<queue, work, tries>>
own == <<local, rewound>>

Minutes == 0 .. MaxMinute
Absent == -1
NoHash == [requests |-> 0, tokens |-> 0, r |-> [i \in Requests |-> Absent],
           s |-> [i \in Requests |-> Absent]]
Granted == {"admitted", "settling", "done"}

Waiting(r) == caller[r] \in {"reserving", "settling"}

-----------------------------------------------------------------------------
(* The scripts: the hash they leave and the reply they give.               *)

\* ARGV[5]: the hash of minute w expires then, and a reservation of the
\* minute is refused from then on.
ExpiresAt_Early(w) == w + 1
ExpiresAt(w) == w + 2

WindowExpired_Never(w) == FALSE
WindowExpired(w) == now >= ExpiresAt(w)

SeenReserve_Forgets(h, r) == FALSE
SeenReserve(h, r) == h.r[r] # Absent

FitsRpm(h) == h.requests + 1 <= limit.rpm

FitsTpm(h, r) == h.tokens + asked[r] <= limit.tpm

ReserveScript(h, r) ==
    IF SeenReserve(h, r)
    THEN [hash |-> h, reply |-> IF h.r[r] = asked[r] THEN "allowed" ELSE "error"]
    ELSE IF WindowExpired(window[r]) THEN [hash |-> h, reply |-> "error"]
    ELSE IF ~FitsRpm(h) \/ ~FitsTpm(h, r) THEN [hash |-> h, reply |-> "denied"]
    ELSE [hash |-> [h EXCEPT !.requests = @ + 1, !.tokens = @ + asked[r],
                             !.r[r] = asked[r]],
          reply |-> "allowed"]

\* A hash exists iff it counts a request: HINCRBY creates it, EXPIREAT ends it.
SettleScript(h, r) ==
    IF h.requests = 0 THEN [hash |-> h, reply |-> "settled"]
    ELSE IF h.r[r] = Absent \/ h.r[r] # asked[r] THEN [hash |-> h, reply |-> "error"]
    ELSE IF h.s[r] # Absent
    THEN [hash |-> h, reply |-> IF h.s[r] = actual[r] THEN "settled" ELSE "error"]
    ELSE LET left == h.tokens - h.r[r] + actual[r]
         IN  [hash |-> [h EXCEPT !.tokens = IF left < 0 THEN 0 ELSE left,
                                 !.s[r] = actual[r]],
              reply |-> "settled"]

Script(kind, r) ==
    IF kind = "reserve" THEN ReserveScript(hash[window[r]], r)
                        ELSE SettleScript(hash[window[r]], r)

Executed(kind, r) == hash' = [hash EXCEPT ![window[r]] = Script(kind, r).hash]

-----------------------------------------------------------------------------
(* The request: reserve before the body is released, settle in logging.    *)

\* The minute m is read from the gateway's clock, which may be wrong by any
\* amount.
Reserve(r, g, m, t) ==
    /\ g \in Distributed /\ caller[r] = "new"
    /\ window' = [window EXCEPT ![r] = m]
    /\ gateway' = [gateway EXCEPT ![r] = g]
    /\ asked' = [asked EXCEPT ![r] = t]
    /\ \/ /\ Len(queue[g]) < ChannelSize
          /\ caller' = [caller EXCEPT ![r] = "reserving"]
          /\ queue' = [queue EXCEPT ![g] = Append(@, r)]
       \/ /\ Len(queue[g]) >= ChannelSize       \* try_send: 503
          /\ caller' = [caller EXCEPT ![r] = "refused"]
          /\ UNCHANGED queue
    /\ UNCHANGED <<limit, actual, work, tries, wire, hash, now, own>>

LocalWindow(g, m) ==
    IF local[g].minute # m THEN [minute |-> m, count |-> 0] ELSE local[g]

\* check_rate_limit: requests only, in the memory of the gateway.  The count
\* starts again at any other minute, one that was counted in before included.
CheckRateLimit(r, g, m) ==
    LET current == LocalWindow(g, m)
        fits == current.count < limit.rpm
    IN
    /\ g \notin Distributed /\ caller[r] = "new"
    /\ rewound' = IF m < local[g].minute THEN rewound \cup {g} ELSE rewound
    /\ window' = [window EXCEPT ![r] = m]
    /\ gateway' = [gateway EXCEPT ![r] = g]
    /\ local' = [local EXCEPT ![g] = IF fits THEN [current EXCEPT !.count = @ + 1]
                                     ELSE current]
    /\ caller' = [caller EXCEPT ![r] = IF fits THEN "admitted" ELSE "refused"]
    /\ UNCHANGED <<asked, limit, actual, channel, wire, hash, now>>

\* What a call that gets no answer, or an error, becomes: 503 before the
\* request is admitted, a warning after it has ended.
Failed(r) == IF caller[r] = "reserving" THEN "refused" ELSE "done"

\* The caller waits two seconds for its answer; closing the channel is what
\* the worker sees as `cancelled`.
GiveUp(r) ==
    /\ Waiting(r)
    /\ caller' = [caller EXCEPT ![r] = Failed(r)]
    /\ UNCHANGED <<call, actual, channel, wire, hash, now, own>>

\* logging: settle with the usage the provider reported.
Settle(r, n) ==
    LET g == gateway[r] IN
    /\ caller[r] = "admitted" /\ g \in Distributed
    /\ Len(queue[g]) < ChannelSize
    /\ actual' = [actual EXCEPT ![r] = n]
    /\ caller' = [caller EXCEPT ![r] = "settling"]
    /\ queue' = [queue EXCEPT ![g] = Append(@, r)]
    /\ UNCHANGED <<call, work, tries, wire, hash, now, own>>

\* Usage is unknown, the channel is full or there is nothing to settle: the
\* reservation stays until its minute expires.
Retain(r) ==
    /\ caller[r] = "admitted"
    /\ caller' = [caller EXCEPT ![r] = "done"]
    /\ UNCHANGED <<call, actual, channel, wire, hash, now, own>>

-----------------------------------------------------------------------------
(* The worker.                                                             *)

Recv(g) ==
    /\ work[g] = None /\ queue[g] # <<>>
    /\ work' = [work EXCEPT ![g] = Head(queue[g])]
    /\ queue' = [queue EXCEPT ![g] = Tail(@)]
    /\ tries' = [tries EXCEPT ![g] = 2]
    /\ UNCHANGED <<caller, call, actual, wire, hash, now, own>>

Kind(r) == IF caller[r] = "reserving" THEN "reserve" ELSE "settle"

\* The loop body runs for a command whose caller still waits.
Attempting(g) == work[g] # None /\ tries[g] > 0 /\ Waiting(work[g])

Answer(reply) ==
    CASE reply = "allowed" -> "admitted"
      [] reply = "denied" -> "refused"
      [] reply = "settled" -> "done"

\* A script ran and its reply arrived: a success ends the loop.
Succeed(g) ==
    LET r == work[g]
        reply == Script(Kind(r), r).reply
    IN
    /\ Attempting(g)
    /\ reply # "error"
    /\ Executed(Kind(r), r)
    /\ caller' = [caller EXCEPT ![r] = Answer(reply)]
    /\ work' = [work EXCEPT ![g] = None]
    /\ UNCHANGED <<call, actual, queue, tries, wire, now, own>>

\* The connection fails, the script answers an error, its reply is lost, or
\* nothing comes within 300 ms of sending it: try again on a new connection.
Fail(g) ==
    LET r == work[g] IN
    /\ Attempting(g)
    /\ tries' = [tries EXCEPT ![g] = @ - 1]
    /\ \/ UNCHANGED <<wire, hash>>
       \/ Executed(Kind(r), r) /\ UNCHANGED wire
       \/ wire' = [wire EXCEPT ![Kind(r)][r] = @ + 1] /\ UNCHANGED hash
    /\ UNCHANGED <<caller, call, actual, queue, work, now, own>>

\* The loop is over without a success: answer the error, if anyone waits.
AnswerError(g) ==
    LET r == work[g] IN
    /\ r # None /\ ~Attempting(g)
    /\ caller' = IF Waiting(r) THEN [caller EXCEPT ![r] = Failed(r)] ELSE caller
    /\ work' = [work EXCEPT ![g] = None]
    /\ UNCHANGED <<call, actual, queue, tries, wire, hash, now, own>>

\* A command the worker gave up on reaches Redis after all.
ExecuteLate(kind, r) ==
    /\ wire[kind][r] > 0
    /\ Executed(kind, r)
    /\ wire' = [wire EXCEPT ![kind][r] = @ - 1]
    /\ UNCHANGED <<caller, call, actual, channel, now, own>>

-----------------------------------------------------------------------------
(* Time.                                                                   *)

\* Redis drops the hashes whose expiry has come.
RedisTick ==
    /\ now < MaxMinute
    /\ now' = now + 1
    /\ hash' = [w \in Minutes |-> IF now' >= ExpiresAt(w) THEN NoHash ELSE hash[w]]
    /\ UNCHANGED <<caller, call, actual, channel, wire, own>>

-----------------------------------------------------------------------------

Init ==
    /\ caller = [r \in Requests |-> "new"]
    /\ window = [r \in Requests |-> 0]
    /\ gateway = [r \in Requests |-> None]
    /\ asked = [r \in Requests |-> 0]
    /\ actual = [r \in Requests |-> 0]
    /\ queue = [g \in Gateways |-> <<>>]
    /\ work = [g \in Gateways |-> None]
    /\ tries = [g \in Gateways |-> 0]
    /\ wire = [k \in {"reserve", "settle"} |-> [r \in Requests |-> 0]]
    /\ hash = [w \in Minutes |-> NoHash]
    /\ limit \in Limits
    /\ now = 0
    /\ local = [g \in Gateways |-> [minute |-> 0, count |-> 0]]
    /\ rewound = {}

Next ==
    \/ \E r \in Requests :
          \/ \E g \in Gateways, m \in Minutes :
                (\E t \in Asks : Reserve(r, g, m, t)) \/ CheckRateLimit(r, g, m)
          \/ GiveUp(r) \/ Retain(r)
          \/ \E n \in Actuals : Settle(r, n)
          \/ \E k \in {"reserve", "settle"} : ExecuteLate(k, r)
    \/ \E g \in Gateways :
          Recv(g) \/ Succeed(g) \/ Fail(g) \/ AnswerError(g)
    \/ RedisTick

Spec == Init /\ [][Next]_vars

-----------------------------------------------------------------------------
(* Properties.                                                             *)

AdmittedIn(G, w) ==
    {r \in Requests : caller[r] \in Granted /\ gateway[r] \in G /\ window[r] = w}

(***************************************************************************)
(* The limits, over the whole life of a minute.  However late, lost or     *)
(* repeated the commands and however wrong the gateways' clocks, the       *)
(* gateways that share Redis never admit more than rpm requests for one    *)
(* minute: not even once its hash has expired, when a late reservation     *)
(* would start from zero.  A gateway on its own keeps to rpm for itself as *)
(* long as its clock does not go back past a minute it counted in, which   *)
(* would start the count of that minute again (auth.rs 206).  What the     *)
(* reservations of a minute were promised, less what settlements gave      *)
(* back, stays within tpm: only usage above its own reservation can take a *)
(* minute past it.                                                         *)
(***************************************************************************)
LimitsHold ==
    \A w \in Minutes :
        LET h == hash[w] IN
        /\ Cardinality(AdmittedIn(Distributed, w)) <= limit.rpm
        /\ \A g \in Gateways \ (Distributed \cup rewound) :
              Cardinality(AdmittedIn({g}, w)) <= limit.rpm
        /\ Total({r \in Requests : h.r[r] # Absent},
                 [r \in Requests |-> IF h.s[r] # Absent /\ h.s[r] < h.r[r] THEN h.s[r]
                                     ELSE h.r[r]]) <= limit.tpm

(***************************************************************************)
(* A retry never counts twice: while a minute lives, its two counters are  *)
(* exactly the reservations recorded in it, each at its settled amount if  *)
(* it was settled and at its reserved amount otherwise.                    *)
(***************************************************************************)
CountersAgree ==
    \A w \in Minutes :
        LET h == hash[w]
            ids == {r \in Requests : h.r[r] # Absent}
        IN  /\ h.requests = Cardinality(ids)
            /\ h.tokens = Total(ids, [r \in Requests |->
                                        IF h.s[r] # Absent THEN h.s[r] ELSE h.r[r]])

(***************************************************************************)
(* An admitted request holds its quota through the minute it was admitted  *)
(* for and the one after it, by Redis' clock: the hash records its         *)
(* reservation with its tokens.                                            *)
(***************************************************************************)
AdmittedIsCounted ==
    \A r \in Requests :
        (caller[r] \in Granted /\ gateway[r] \in Distributed /\ now < window[r] + 2)
            => hash[window[r]].r[r] = asked[r]
=============================================================================
