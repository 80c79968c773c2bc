--------------------------- MODULE ManagedTraffic ---------------------------
(* One managed pool: the control plane's pool row, the gateways admitted to *)
(* it, the requests they carry to the pool's Envoy entry, the member agent  *)
(* that observes it and the scaling operation that resizes it.              *)
(*                                                                          *)
(* A drain closes the pool under a new generation. It is complete when      *)
(* every gateway that was ever told to accept has acknowledged that         *)
(* generation with no request in flight, or is retired; a gateway that died *)
(* leaves an unknown count, cleared only by evidence that the entry was     *)
(* idle after its death.                                                    *)
EXTENDS Integers, FiniteSets

CONSTANTS
    Sessions,           \* gateway incarnations
    Requests,
    Protocol,           \* the entry's traffic protocol, 1 or 2
    Setups,             \* the pools and gateways to start from, by name
    MaxGeneration

(* A setup: identified, the incarnations that present a pod identity, and   *)
(* whether XSCOPE_REQUIRE_GATEWAY_IDENTITY makes them required; managed, of *)
(* spec.autoscaling, with its minReplicas; the replicas a spec may ask for; *)
(* manual, whether an administrator drains, resizes or deletes; rolledOut,  *)
(* whether the first revision has its pods already; and two bounds, on the  *)
(* cluster's versions and the snapshots' sequences.                         *)
ASSUME TrafficAssumption ==
    /\ Protocol \in {1, 2}
    /\ IsFiniteSet(Requests)
    /\ \A name \in DOMAIN Setups : LET u == Setups[name] IN
         /\ u.identified \subseteq Sessions
         /\ {u.required, u.managed, u.manual, u.rolledOut} \subseteq BOOLEAN
         /\ u.managed => Protocol = 2    \* bind_pool refuses anything else
         /\ u.replicas \subseteq Nat \ {0} /\ u.replicas # {}
         /\ u.minimum \in Nat \ {0} /\ \A n \in u.replicas : u.minimum =< n
         /\ {u.versions, u.sequences, MaxGeneration} \subseteq Nat

VARIABLES
    setup,      \* the name of this behaviour's setup; never changes
    pool,       \* the managed_pool row
    cluster,    \* the member_cluster row and what its newest revision asks for
    runtime,    \* the member: the agent, the ModelDeployment, the operator's
                \* copy of it, and the Deployment with its pods
    session,    \* the gateway_session rows (sequence 0: no row yet)
    view,       \* the gateway_pool_view rows (delivered 0: no row)
    gate,       \* each gateway's local Traffic state
    reply,      \* the snapshot on its way to a gateway (sequence 0: none)
    post,       \* the report on its way from a gateway (sequence 0: none)
    req,        \* the requests, at the gateway and at the entry
    obs,        \* the agent's observation task or report
    proof,      \* the agent's finding about a gateway's container
    scrape,     \* Prometheus' last sample of the entry
    fences      \* terminations recorded so far: the time of the fences

vars == <<setup, pool, cluster, runtime, session, view, gate, reply, post, req,
          obs, proof, scrape, fences>>

control == <<pool, cluster, session, view, fences>>
wire == <<reply, post>>
agent == <<obs, proof, scrape>>

Has == Setups[setup]

Idle == [phase |-> "none", target |-> 0, up |-> FALSE, previous |-> 0]

(* What a revision may ask of the deployment besides a number of replicas.  *)
Omitted == -1
Deleted == -2      \* deletion; in the member, no such object

NoObs == [generation |-> 0, fence |-> 0, seen |-> FALSE, ready |-> FALSE,
          applied |-> 0, idle |-> FALSE]

(* A cluster whose first revision, with this deployment, is applied, and    *)
(* rolled out unless the operator has yet to create the Deployment. Nobody  *)
(* has resized anything by hand so far (history).                           *)
Init ==
    /\ setup \in DOMAIN Setups
    /\ \E n \in Has.replicas : LET pods == IF Has.rolledOut THEN n ELSE 0 IN
         /\ pool = [state |-> "none", generation |-> 0, version |-> 0,
                    replicas |-> n, ready |-> FALSE, uid |-> FALSE,
                    op |-> Idle, nonce |-> FALSE, fence |-> 0]
         /\ cluster = [desired |-> 1, acknowledged |-> 1, asks |-> n,
                       resized |-> FALSE]
         /\ runtime = [applied |-> 1, version |-> 1, replicas |-> n, copy |-> n,
                       spec |-> pods, observed |-> TRUE, running |-> pods]
    /\ session = [s \in Sessions |->
                    [sequence |-> 0, closed |-> FALSE, reported |-> FALSE,
                     bound |-> FALSE, fence |-> 0]]
    /\ view = [s \in Sessions |->
                 [delivered |-> 0, acked |-> 0, active |-> 0, retired |-> FALSE]]
    /\ gate = [s \in Sessions |->
                 [up |-> TRUE, closed |-> FALSE, sequence |-> 0,
                  generation |-> 0, accepting |-> FALSE]]
    /\ reply = [s \in Sessions |->
                  [sequence |-> 0, generation |-> 0, accepting |-> FALSE]]
    /\ post = [s \in Sessions |-> [sequence |-> 0, closed |-> FALSE, active |-> 0]]
    /\ req = [r \in Requests |->
                [at |-> "new", by |-> "none", grant |-> 0, owner |-> "none"]]
    /\ obs = NoObs
    /\ proof = [s \in Sessions |-> "none"]
    /\ scrape = [idle |-> FALSE, at |-> 0]
    /\ fences = 0

----------------------------------------------------------------------------
(* What the control plane reads                                             *)

(* The newest fence among the pool's gateways whose work is unknown.        *)
IdleAfter ==
    LET unknown == {s \in Sessions : view[s].active < 0}
    IN  IF unknown = {} THEN 0
        ELSE CHOOSE t \in {session[s].fence : s \in unknown} :
               \A s \in unknown : session[s].fence =< t

(* A participant with work in flight, or that may still act on an older     *)
(* generation.                                                              *)
Blocked_LiveOnly(views, generation) ==
    \E s \in Sessions :
      /\ views[s].delivered # 0
      /\ ~views[s].retired
      /\ views[s].active # 0 \/ views[s].acked < generation
Blocked(views, generation) ==
    \E s \in Sessions :
      /\ views[s].delivered # 0
      /\ \/ views[s].active # 0
         \/ ~views[s].retired /\ views[s].acked < generation

Attributed(s) == s \in Has.identified /\ session[s].bound

(* Whether the snapshot opens the pool to gateway s. While a scale-up is    *)
(* applied the version the pool had before it still counts as acknowledged. *)
Accepting(s) ==
    /\ pool.state = "active"
    /\ pool.ready
    /\ Attributed(s) \/ (~Has.required /\ s \notin Has.identified)
    /\ cluster.acknowledged >=
         (IF pool.op.up THEN pool.op.previous ELSE pool.version)

----------------------------------------------------------------------------
(* Gateways: snapshot, gate, acknowledgement                                *)

(* GET /gateway/snapshot. The reply may be lost, in which case an older one *)
(* may still be under way; the request may outlive the gateway that sent    *)
(* it.                                                                      *)
TrafficSnapshot(s) ==
    /\ ~session[s].closed
    /\ session[s].sequence < Has.sequences
    /\ session' = [session EXCEPT ![s].sequence = @ + 1, ![s].reported = FALSE]
    /\ view' = IF pool.state # "none" /\ (view[s].delivered # 0 \/ Accepting(s))
               THEN [view EXCEPT ![s].delivered = pool.generation]
               ELSE view
    /\ \/ reply' = [reply EXCEPT ![s] = [sequence |-> session[s].sequence + 1,
                                         generation |-> pool.generation,
                                         accepting |-> Accepting(s)]]
       \/ UNCHANGED reply
    /\ UNCHANGED <<setup, pool, cluster, fences, runtime, gate, post, req, agent>>

InFlight(s) ==
    Cardinality({r \in Requests : req[r].by = s /\ req[r].owner = "gateway"})

(* The refresh thread installs the grant unless it is older than the        *)
(* installed one or rewinds the pool, then builds the report under the lock *)
(* that serialises it with enter.                                           *)
Install(s) ==
    /\ gate[s].up
    /\ reply[s].sequence > gate[s].sequence
    /\ reply[s].generation >= gate[s].generation
    /\ gate' = [gate EXCEPT ![s].sequence = reply[s].sequence,
                            ![s].generation = reply[s].generation,
                            ![s].accepting = reply[s].accepting]
    /\ UNCHANGED <<setup, control, runtime, wire, req, agent>>

Report(s) ==
    /\ gate[s].up
    /\ gate[s].sequence > post[s].sequence
    /\ post' = [post EXCEPT ![s] = [sequence |-> gate[s].sequence,
                                    closed |-> gate[s].closed,
                                    active |-> InFlight(s)]]
    /\ UNCHANGED <<setup, control, runtime, gate, reply, req, agent>>

(* A report answers the last snapshot its session was handed.               *)
AnswersLast_AnyTime(s) == post[s].sequence # 0
AnswersLast(s) ==
    post[s].sequence # 0 /\ post[s].sequence = session[s].sequence

(* POST /gateway/traffic-report, at any time after it was sent. A second    *)
(* delivery is recognised by reported and changes nothing.                  *)
TrafficReport(s) ==
    /\ AnswersLast(s)
    /\ post[s].closed => post[s].active = 0
    /\ ~session[s].closed
    /\ ~session[s].reported
    /\ view' = IF view[s].delivered = 0 THEN view
               ELSE [view EXCEPT ![s].acked = view[s].delivered,
                                 ![s].retired = post[s].closed,
                                 ![s].active = post[s].active]
    /\ session' = [session EXCEPT ![s].closed = post[s].closed,
                                  ![s].reported = TRUE]
    /\ UNCHANGED <<setup, pool, cluster, fences, runtime, gate, wire,
                   req, agent>>

----------------------------------------------------------------------------
(* Requests                                                                 *)

(* A request enters under the generation its route was resolved with.       *)
Enter(r, s) ==
    /\ req[r].at = "new"
    /\ gate[s].up /\ ~gate[s].closed
    /\ gate[s].accepting
    /\ req' = [req EXCEPT ![r] = [at |-> "entered", by |-> s, grant |-> 0,
                                  owner |-> "gateway"]]
    /\ UNCHANGED <<setup, control, runtime, gate, wire, agent>>

(* The token sent upstream is the one installed by then, which may be newer *)
(* than the one the request entered under, and covers the pool only if its  *)
(* snapshot did.                                                            *)
Forward(r) ==
    LET g == gate[req[r].by]
    IN  /\ req[r].at = "entered" /\ req[r].owner = "gateway"
        /\ ~g.closed
        /\ req' = [req EXCEPT ![r].at = "sent",
                              ![r].grant = IF g.accepting THEN g.generation ELSE 0]
        /\ UNCHANGED <<setup, control, runtime, gate, wire, agent>>

(* Envoy counts the request from here on; a protocol 1 entry asks nobody.   *)
Arrive(r) ==
    /\ req[r].at = "sent"
    /\ req' = [req EXCEPT ![r].at = IF Protocol = 2 THEN "arrived" ELSE "serving"]
    /\ UNCHANGED <<setup, control, runtime, gate, wire, agent>>

(* authorize_serving reads the session row, then the pool row, in no        *)
(* transaction.                                                             *)
CheckSession(r) ==
    LET s == req[r].by
    IN  /\ req[r].at = "arrived"
        /\ ~session[s].closed
        /\ s \in Has.identified \/ Has.required => session[s].bound
        /\ req' = [req EXCEPT ![r].at = "passed"]
        /\ UNCHANGED <<setup, control, runtime, gate, wire, agent>>

CheckPool(r) ==
    /\ req[r].at = "passed"
    /\ req[r].grant = pool.generation
    /\ pool.state = "active" /\ pool.ready
    /\ req' = [req EXCEPT ![r].at = "serving"]
    /\ UNCHANGED <<setup, control, runtime, gate, wire, agent>>

(* The entry is done with the request: it was served, refused or reset.     *)
Leave(r) ==
    /\ req[r].at \in {"sent", "arrived", "passed", "serving"}
    /\ req' = [req EXCEPT ![r].at = "over"]
    /\ UNCHANGED <<setup, control, runtime, gate, wire, agent>>

(* The gateway drops the permit: the response ended, the client went away   *)
(* or the request failed before it was sent.                                *)
Drop(r) ==
    /\ req[r].owner = "gateway"
    /\ req' = [req EXCEPT ![r].owner = "none",
                          ![r].at = IF @ = "entered" THEN "over" ELSE @]
    /\ UNCHANGED <<setup, control, runtime, gate, wire, agent>>

----------------------------------------------------------------------------
(* The end of a gateway                                                     *)

(* The process dies; what it had sent lives on at the entry.                *)
Crash(s) ==
    /\ gate[s].up
    /\ gate' = [gate EXCEPT ![s].up = FALSE]
    /\ req' = [r \in Requests |->
                 IF req[r].by # s \/ req[r].owner # "gateway" THEN req[r]
                 ELSE IF req[r].at = "entered"
                      THEN [req[r] EXCEPT !.at = "over", !.owner = "none"]
                      ELSE [req[r] EXCEPT !.owner = "orphan"]]
    /\ UNCHANGED <<setup, control, runtime, wire, agent>>

(* finish runs after the request runtimes are gone, and closes the gate     *)
(* before the last refresh.                                                 *)
Finish(s) ==
    /\ gate[s].up /\ ~gate[s].closed
    /\ InFlight(s) = 0
    /\ gate' = [gate EXCEPT ![s].closed = TRUE]
    /\ UNCHANGED <<setup, control, runtime, wire, req, agent>>

(* The agent looks at the gateway's container: running and answering for    *)
(* this session, or stopped. Without an attested container a stopped one,   *)
(* or one whose pod is being deleted, is only known to be unbound.          *)
InspectPod(s) ==
    /\ s \in Has.identified
    /\ session[s].sequence # 0 /\ ~session[s].closed
    /\ proof[s] = "none"
    /\ gate[s].up => ~session[s].bound
    /\ \E found \in IF session[s].bound THEN {"terminated"}
                   ELSE IF gate[s].up THEN {"bound", "unbound"}
                   ELSE {"unbound"} :
         proof' = [proof EXCEPT ![s] = found]
    /\ UNCHANGED <<setup, control, runtime, gate, wire, req, obs, scrape>>

(* gateway_proof. A finding that came too late is refused or has no effect. *)
GatewayProof(s) ==
    /\ proof[s] # "none"
    /\ proof' = [proof EXCEPT ![s] = "none"]
    /\ CASE proof[s] = "bound" /\ ~session[s].closed ->
              /\ session' = [session EXCEPT ![s].bound = TRUE]
              /\ UNCHANGED <<view, fences>>
         [] proof[s] = "terminated" /\ session[s].bound /\ ~session[s].closed ->
              /\ fences' = fences + 1
              /\ session' = [session EXCEPT ![s].closed = TRUE,
                                            ![s].fence = fences + 1]
              /\ view' = IF view[s].delivered = 0 THEN view
                         ELSE [view EXCEPT ![s].retired = TRUE, ![s].active = -1]
         [] proof[s] = "unbound" /\ ~session[s].bound /\ view[s].delivered = 0 ->
              /\ session' = [session EXCEPT ![s].closed = TRUE]
              /\ UNCHANGED <<view, fences>>
         [] OTHER -> UNCHANGED <<session, view, fences>>
    /\ UNCHANGED <<setup, pool, cluster, runtime, gate, wire, req, obs, scrape>>

(* Prometheus samples the entry's downstream_rq_active. A sample from       *)
(* before the first termination proves nothing and is left out.             *)
Scrape ==
    /\ fences # 0
    /\ scrape' = [idle |-> \A r \in Requests :
                             req[r].at \notin {"arrived", "passed", "serving"},
                  at |-> fences]
    /\ UNCHANGED <<setup, control, runtime, gate, wire, req, obs, proof>>

----------------------------------------------------------------------------
(* The pool                                                                 *)

BindPool ==
    /\ pool.state = "none"
    /\ pool' = [pool EXCEPT !.state = "pending", !.generation = 1,
                            !.version = cluster.desired,
                            !.replicas = cluster.asks]
    /\ UNCHANGED <<setup, cluster, session, view, fences, runtime, gate, wire,
                   req, agent>>

NotScaling_Ignored == TRUE
NotScaling == pool.op = Idle

(* Every manual transition but the completion of a drain opens a new        *)
(* generation, and each cancels the observation under way.                  *)
Transition(state, generation) ==
    /\ Has.manual
    /\ NotScaling
    /\ generation =< MaxGeneration
    /\ pool' = [pool EXCEPT !.state = state, !.generation = generation,
                            !.nonce = FALSE]
    /\ UNCHANGED <<setup, cluster, session, view, fences, runtime, gate, wire,
                   req, agent>>

Drain ==
    /\ pool.state \in {"active", "pending"}
    /\ Transition("draining", pool.generation + 1)

FinishDrain ==
    /\ pool.state = "draining"
    /\ ~Blocked(view, pool.generation)
    /\ Transition("drained", pool.generation)

Activate ==
    /\ pool.state = "drained"
    /\ pool.ready
    /\ Transition("active", pool.generation + 1)

(* ready_until passes without a new observation.                            *)
ReadyExpires ==
    /\ pool.ready
    /\ pool' = [pool EXCEPT !.ready = FALSE]
    /\ UNCHANGED <<setup, cluster, session, view, fences, runtime, gate, wire,
                   req, agent>>

(* The administrator's desired state. A revision that leaves the deployment *)
(* out passes in any state, an automatic operation under way included, as   *)
(* does the same spec again; another replica count, zero included, or the   *)
(* deletion that retires the pool only when drained, idle of scaling and    *)
(* with the deployment's identity observed.                                 *)
Put(asks) ==
    /\ Has.manual
    /\ pool.state # "none"
    /\ cluster.desired < Has.versions
    /\ cluster' = [cluster EXCEPT !.desired = @ + 1, !.asks = asks,
                    !.resized = @ \/ asks \notin {Omitted, Deleted, pool.replicas}]
    /\ UNCHANGED <<setup, session, view, fences, runtime, gate, wire, req, agent>>

PutUnchanged ==
    \E asks \in {Omitted, IF pool.state = "retired" THEN Deleted ELSE pool.replicas} :
       Put(asks) /\ UNCHANGED pool

PutMutation ==
    \E asks \in (Has.replicas \cup {0, Deleted}) \ {pool.replicas} :
       /\ pool.state = "drained"
       /\ NotScaling
       /\ pool.uid
       /\ pool.generation < MaxGeneration
       /\ Put(asks)
       /\ pool' = [pool EXCEPT !.state = IF asks = Deleted THEN "retired" ELSE @,
                               !.generation = @ + 1,
                               !.version = cluster.desired + 1,
                               !.replicas = IF asks = Deleted THEN @ ELSE asks,
                               !.ready = FALSE, !.nonce = FALSE]

----------------------------------------------------------------------------
(* The member: delivery of the desired revision and its roll-out            *)

(* The agent applies the revision it was handed, unless a spec in it is     *)
(* invalid: an autoscaled deployment has no fewer than its minReplicas ...  *)
ApplyDesired ==
    /\ runtime.applied < cluster.desired
    /\ Has.managed => cluster.asks # 0
    /\ runtime' = IF cluster.asks = Omitted
                  THEN [runtime EXCEPT !.applied = cluster.desired]
                  ELSE [runtime EXCEPT !.applied = cluster.desired,
                                       !.version = cluster.desired,
                                       !.replicas = cluster.asks]
    /\ UNCHANGED <<setup, control, gate, wire, req, agent>>

(* ... and reports it; the revision may have been superseded meanwhile.     *)
ReportCluster ==
    /\ cluster.acknowledged < runtime.applied
    /\ cluster' = [cluster EXCEPT !.acknowledged = runtime.applied]
    /\ UNCHANGED <<setup, pool, session, view, fences, runtime, gate, wire,
                   req, agent>>

(* The operator is handed a ModelDeployment ...                             *)
OperatorReads ==
    /\ runtime.replicas \notin {Deleted, runtime.copy}
    /\ runtime' = [runtime EXCEPT !.copy = runtime.replicas]
    /\ UNCHANGED <<setup, control, gate, wire, req, agent>>

(* ... and writes its replicas to the Deployment, in place of what it reads *)
(* there; the ModelDeployment may have changed or gone by then.             *)
OperatorWrites ==
    /\ runtime.spec # runtime.copy
    /\ runtime' = [runtime EXCEPT !.spec = runtime.copy, !.observed = FALSE]
    /\ UNCHANGED <<setup, control, gate, wire, req, agent>>

(* Kubernetes: the Deployment controller reports the spec it works on       *)
(* before or after it has brought the pods to it, and what belongs to a     *)
(* deleted ModelDeployment is collected.                                    *)
Rollout ==
    /\ \/ /\ ~runtime.observed
          /\ runtime' = [runtime EXCEPT !.observed = TRUE]
       \/ /\ runtime.running # runtime.spec
          /\ runtime' = [runtime EXCEPT !.running = runtime.spec]
       \/ /\ runtime.replicas = Deleted /\ runtime.spec # 0
          /\ runtime' = [runtime EXCEPT !.spec = 0]
    /\ UNCHANGED <<setup, control, gate, wire, req, agent>>

----------------------------------------------------------------------------
(* Observation                                                              *)

(* managed_ready asks the Deployment of an autoscaled pool for no more      *)
(* replicas than wanted and its status for the minimum only; deployment_    *)
(* ready asks both for the count itself.                                    *)
RuntimeReady(wanted) ==
    /\ runtime.observed
    /\ IF Has.managed
       THEN /\ runtime.spec \in Has.minimum .. wanted
            /\ runtime.running >= Has.minimum
       ELSE wanted > 0 /\ runtime.spec = wanted /\ runtime.running = wanted

(* The ModelDeployment carries at least the pool's version, with its spec.  *)
(* Its identity is then known even if it is not ready.                      *)
SpecSeen == runtime.version >= pool.version /\ runtime.replicas = pool.replicas

(* Readiness, for an entry that is itself in order.                         *)
ReadyNow == SpecSeen /\ RuntimeReady(pool.replicas)

(* A round of the agent: observation_tasks hands out the pool's generation, *)
(* spec and newest fence with a nonce; the agent reads the deployment and,  *)
(* when there is a fence, the sample taken after it, if Prometheus answers. *)
(* (A task overtaken before the read yields a report that is refused, so    *)
(* handing it out and reading are one step.)                                *)
Observe ==
    /\ obs = NoObs
    /\ pool.state \notin {"none", "retired"}
    /\ cluster.acknowledged >= pool.version
    /\ \E answered \in BOOLEAN :
         obs' = [generation |-> pool.generation, fence |-> IdleAfter,
                 seen |-> SpecSeen, ready |-> ReadyNow,
                 applied |-> IF SpecSeen THEN runtime.running ELSE -1,
                 idle |-> answered /\ IdleAfter # 0
                            /\ scrape.idle /\ scrape.at >= IdleAfter]
    /\ pool' = [pool EXCEPT !.fence = IdleAfter, !.nonce = TRUE]
    /\ UNCHANGED <<setup, cluster, session, view, fences, runtime, gate, wire,
                   req,
                   proof, scrape>>

(* The round ends early: a timeout, a refused report, a new leader.         *)
Abandon ==
    /\ obs # NoObs
    /\ obs' = NoObs
    /\ UNCHANGED <<setup, control, runtime, gate, wire, req, proof, scrape>>

(* The pool row as the observation leaves it. Only a pending pool opens.    *)
Observed ==
    LET opens == obs.ready /\ pool.state = "pending"
    IN  [pool EXCEPT !.nonce = FALSE, !.ready = obs.ready, !.uid = @ \/ obs.seen,
                     !.state = IF opens THEN "active" ELSE @,
                     !.generation = IF opens THEN @ + 1 ELSE @]

(* confirm_idle: the unknown work of the dead gateways is over.             *)
Cleared ==
    [s \in Sessions |->
       IF obs.idle /\ view[s].retired /\ view[s].active < 0
       THEN [view[s] EXCEPT !.active = 0] ELSE view[s]]

(* apply: a new revision with the target, once the last one is acknowledged. *)
(* A smaller one leaves the pool drained until it is running.               *)
Applied(p, target, up) ==
    LET version == cluster.desired + 1
        q == [p EXCEPT !.replicas = target, !.version = version, !.nonce = FALSE,
                       !.op = [phase |-> "applying", target |-> target,
                               up |-> up, previous |-> p.version]]
    IN  IF cluster.desired # cluster.acknowledged
        THEN [pool |-> p, cluster |-> cluster]
        ELSE [pool |-> IF up THEN q
                       ELSE [q EXCEPT !.state = "drained", !.ready = FALSE,
                                      !.generation = @ + 1],
              cluster |-> [cluster EXCEPT !.desired = version, !.asks = target]]

(* The new replica count is not only approved but running.                  *)
RolledOut_Ready(p) == obs.ready
RolledOut(p) == obs.ready /\ obs.applied = p.op.target

Reopened(p) ==
    [p EXCEPT !.op = Idle, !.state = "active", !.generation = @ + 1]

(* reconcile: the pool and cluster rows after the scaling step of an        *)
(* observation, with KEDA's recommendation (0: no valid one).               *)
Reconciled(p, views, wanted) ==
    LET keep(q) == [pool |-> q, cluster |-> cluster]
    IN  CASE ~Has.managed -> keep(p)
          [] Has.managed /\ p.op.phase = "applying" ->
               keep(IF ~RolledOut(p) THEN p
                    ELSE IF p.op.up THEN [p EXCEPT !.op = Idle]
                    ELSE Reopened(p))
          [] Has.managed /\ p.op.phase = "draining" ->
               IF wanted >= p.replicas /\ obs.ready THEN keep(Reopened(p))
               ELSE IF wanted = 0 \/ Blocked(views, p.generation) \/ ~obs.ready
                    THEN keep(p)
               ELSE Applied(p, wanted, FALSE)
          [] Has.managed /\ p.op.phase = "none" ->
               IF wanted \in {0, p.replicas} \/ p.state # "active" \/ ~obs.ready
               THEN keep(p)
               ELSE IF wanted > p.replicas THEN Applied(p, wanted, TRUE)
               ELSE keep([p EXCEPT !.state = "draining", !.generation = @ + 1,
                                   !.op = [phase |-> "draining", target |-> wanted,
                                           up |-> FALSE, previous |-> p.version]])

(* What observe_pool asks of the report before it believes it.              *)
Current ==
    /\ pool.nonce
    /\ pool.generation = obs.generation
    /\ cluster.acknowledged >= pool.version
    /\ obs.idle => obs.fence = pool.fence /\ obs.fence = IdleAfter

(* confirm_idle fails the whole report unless the pool is draining behind   *)
(* an entry that authorises.                                                *)
IdleAccepted == obs.idle => Observed.state = "draining" /\ Protocol = 2

(* A scale-down starts only with generations left to finish it.             *)
Room(p) ==
    p.generation + (IF p.op.phase = "draining" THEN 2 ELSE 0) =< MaxGeneration

ObservePool ==
    \E wanted \in {0} \cup IF obs.seen THEN Has.replicas ELSE {} :
      LET after == Reconciled(Observed, Cleared, wanted)
      IN  /\ obs # NoObs
          /\ Current
          /\ IdleAccepted
          /\ Room(after.pool) /\ after.cluster.desired =< Has.versions
          /\ pool' = after.pool
          /\ cluster' = after.cluster
          /\ view' = Cleared
          /\ obs' = NoObs
          /\ UNCHANGED <<setup, session, fences, runtime, gate, wire,
                         req, proof, scrape>>

(* A refused report changes nothing and ends the round.                     *)
Refused ==
    /\ obs # NoObs
    /\ ~Current \/ ~IdleAccepted
    /\ obs' = NoObs
    /\ UNCHANGED <<setup, control, runtime, gate, wire, req, proof, scrape>>

----------------------------------------------------------------------------
Next ==
    \/ \E s \in Sessions :
         \/ TrafficSnapshot(s) \/ Install(s) \/ Report(s) \/ TrafficReport(s)
         \/ Crash(s) \/ Finish(s) \/ InspectPod(s) \/ GatewayProof(s)
         \/ \E r \in Requests : Enter(r, s)
    \/ \E r \in Requests :
         \/ Forward(r) \/ Arrive(r) \/ CheckSession(r) \/ CheckPool(r)
         \/ Leave(r) \/ Drop(r)
    \/ BindPool \/ Drain \/ FinishDrain \/ Activate \/ ReadyExpires
    \/ PutUnchanged \/ PutMutation
    \/ ApplyDesired \/ ReportCluster \/ OperatorReads \/ OperatorWrites \/ Rollout
    \/ Observe \/ Abandon
    \/ ObservePool \/ Refused \/ Scrape

Spec == Init /\ [][Next]_vars

(* The member keeps working: the agent's loop delivers, applies, reports    *)
(* and observes, the operator's watch and requeue bring the Deployment      *)
(* along, Kubernetes the pods, and reports get through again and again.     *)
(* Nothing is assumed of gateways, clients or administrators.               *)
FairSpec ==
    /\ Spec
    /\ WF_vars(ApplyDesired) /\ WF_vars(ReportCluster)
    /\ WF_vars(OperatorReads) /\ WF_vars(OperatorWrites) /\ WF_vars(Rollout)
    /\ WF_vars(Observe) /\ SF_vars(ObservePool) /\ WF_vars(Refused)

----------------------------------------------------------------------------
(* Types: the pool's states and phases, and the counters in their ranges.   *)
TypeOK ==
    /\ pool.state \in {"none", "pending", "active", "draining", "drained", "retired"}
    /\ pool.generation \in 0 .. MaxGeneration
    /\ pool.version \in 0 .. cluster.desired
    /\ pool.op.phase \in {"none", "draining", "applying"}
    /\ cluster.acknowledged \in 1 .. cluster.desired
    /\ cluster.desired \in 1 .. Has.versions
    /\ runtime.running \in Has.replicas \cup {0}
    /\ \A s \in Sessions :
         /\ view[s].active \in -1 .. Cardinality(Requests)
         /\ view[s].delivered \in 0 .. MaxGeneration
         /\ gate[s].sequence \in 0 .. session[s].sequence
    /\ \A r \in Requests :
         /\ req[r].at \in {"new", "entered", "sent", "arrived", "passed",
                           "serving", "over"}
         /\ req[r].owner \in {"none", "gateway", "orphan"}

(* No gateway holds a request for the pool, and no request of a gateway     *)
(* that died is being served by it.                                         *)
Unused ==
    \A r \in Requests :
      /\ req[r].owner # "gateway"
      /\ req[r].owner = "orphan" => req[r].at # "serving"

(* finish-drain and the scaler's apply let a pool count as drained only     *)
(* when it is unused, whatever was in flight, lost, late or orphaned when   *)
(* the acknowledgements came in; and it stays so until it is reopened.      *)
DrainedIsUnused == pool.state \in {"drained", "retired"} => Unused

(* No replica is taken away from under a request. The ModelDeployment's     *)
(* replicas, which the agent writes from a revision approved earlier, shrink *)
(* only while the pool is unused. So do the running pods as long as nobody  *)
(* has resized the pool by hand, although approval, delivery, the           *)
(* operator's write of a copy that may be old, roll-out and reopening are   *)
(* steps of different actors. (After a resize by hand activate may reopen   *)
(* the pool before the pods have followed: managed_ready does not wait for  *)
(* them.)                                                                   *)
ShrinksUnused ==
    [][/\ runtime'.replicas < runtime.replicas => Unused
       /\ runtime'.running < runtime.running /\ ~cluster.resized => Unused]_vars

(* The generation the control plane believes a gateway to have acknowledged *)
(* is one the gateway has installed: no late or lost snapshot or report     *)
(* makes traffic_report record more.                                        *)
AckIsInstalled == \A s \in Sessions : view[s].acked =< gate[s].generation

(* While an automatic operation is under way nothing else moves the pool:   *)
(* it is draining before the smaller revision, drained while that is        *)
(* applied, and open while a larger one is. No administrator's revision     *)
(* asks for another count than the operation's target; it may however leave *)
(* the deployment out, which guard_desired does not refuse.                 *)
OperationOwnsPool ==
    /\ pool.op.phase = "draining" => pool.state = "draining"
    /\ pool.op.phase = "applying" =>
         /\ pool.state = IF pool.op.up THEN "active" ELSE "drained"
         /\ pool.replicas = pool.op.target
         /\ cluster.asks \in {pool.op.target, Omitted}

ScalingDown == pool.op.phase = "applying" /\ ~pool.op.up

(* "Applied and ready confirmed, the entry reopens by itself": a scale-down *)
(* whose smaller revision was approved ends with the pool open again.       *)
ScaleDownReopens == ScalingDown ~> ~ScalingDown
=============================================================================
