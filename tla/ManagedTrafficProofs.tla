------------------------- MODULE ManagedTrafficProofs -------------------------
(***************************************************************************)
(* Proofs about ManagedTraffic, for any gateways, any finite set of        *)
(* requests, both protocols, and any setups and bounds.  A drained pool is *)
(* unused because of what each gateway may still do: the invariant ties    *)
(* the snapshots and reports on the wire to the generation they were       *)
(* handed out under, a count of zero to the requests it stands for, and    *)
(* the evidence about dead gateways to the fences of their ends.           *)
(***************************************************************************)
EXTENDS ManagedTraffic, FiniteSetTheorems, TLAPS

Closed == {"drained", "retired"}

Op == [phase : {"none", "draining", "applying"}, target : Nat, up : BOOLEAN, previous : Nat]
Pool == [state : {"none", "pending", "active", "draining", "drained", "retired"},
         generation : Nat, version : Nat, replicas : Nat, ready : BOOLEAN,
         uid : BOOLEAN, op : Op, nonce : BOOLEAN, fence : Nat]
Cluster == [desired : Nat, acknowledged : Nat, asks : Nat \cup {Omitted, Deleted},
            resized : BOOLEAN]
Runtime == [applied : Nat, version : Nat, replicas : Nat \cup {Deleted}, copy : Nat,
            spec : Nat, observed : BOOLEAN, running : Nat]
Session == [sequence : Nat, closed : BOOLEAN, reported : BOOLEAN, bound : BOOLEAN, fence : Nat]
View == [delivered : Nat, acked : Nat, active : Int, retired : BOOLEAN]
Gate == [up : BOOLEAN, closed : BOOLEAN, sequence : Nat, generation : Nat, accepting : BOOLEAN]
Reply == [sequence : Nat, generation : Nat, accepting : BOOLEAN]
Post == [sequence : Nat, closed : BOOLEAN, active : Nat]
Req == [at : {"new", "entered", "sent", "arrived", "passed", "serving", "over"},
        by : Sessions \cup {"none"}, grant : Nat, owner : {"none", "gateway", "orphan"}]
Obs == [generation : Nat, fence : Nat, seen : BOOLEAN, ready : BOOLEAN, applied : Int,
        idle : BOOLEAN]

Types ==
    /\ setup \in DOMAIN Setups
    /\ pool \in Pool
    /\ cluster \in Cluster
    /\ runtime \in Runtime
    /\ session \in [Sessions -> Session]
    /\ view \in [Sessions -> View]
    /\ gate \in [Sessions -> Gate]
    /\ reply \in [Sessions -> Reply]
    /\ post \in [Sessions -> Post]
    /\ req \in [Requests -> Req]
    /\ obs \in Obs
    /\ proof \in [Sessions -> {"none", "bound", "unbound", "terminated"}]
    /\ scrape \in [idle : BOOLEAN, at : Nat]
    /\ fences \in Nat

-----------------------------------------------------------------------------
(* The pool and its replicas.                                              *)

\* The deployment was never given more replicas than the pool has.
Approved == runtime.replicas =< pool.replicas

\* The rows: what the newest revision may ask for, and what an open pool, or
\* one that may be opened, needs.
RowsInv ==
    /\ OperationOwnsPool
    /\ pool.state = "none" => pool.op = Idle /\ pool.generation = 0 /\ cluster.asks = pool.replicas
    /\ pool.state # "none" => pool.generation # 0
    /\ cluster.asks \in {Omitted, IF pool.state = "retired" THEN Deleted ELSE pool.replicas}
    /\ pool.state \notin Closed \/ pool.ready => Approved
    /\ pool.nonce /\ obs.ready => Approved

\* Deployment, operator and pods follow the ModelDeployment one after the
\* other: all of them at n replicas, on the way up to n or on the way down.
Steady(n) ==
    /\ runtime.replicas = n /\ runtime.copy = n
    /\ runtime.spec \in {0, n} /\ runtime.running =< runtime.spec
Rising(n) ==
    /\ runtime.running =< runtime.spec /\ runtime.spec =< runtime.copy
    /\ runtime.copy =< runtime.replicas /\ runtime.replicas =< n
Falling(n) ==
    n =< runtime.replicas /\ runtime.replicas =< runtime.copy /\ runtime.copy =< runtime.spec

\* They move only between the approval of an operation and its end, and a
\* believed observation says where they are. (Nothing is known of a pool that
\* was resized by hand.)
PodsInv ==
    ~cluster.resized /\ pool.state # "retired" =>
        /\ pool.op.phase # "applying" => Steady(pool.replicas)
        /\ pool.op.phase = "applying" /\ pool.op.up => Rising(pool.replicas)
        /\ pool.op.phase = "applying" /\ ~pool.op.up => Falling(pool.replicas)
        /\ pool.nonce /\ obs.ready =>
             IF pool.op.phase = "applying"
             THEN obs.applied = pool.replicas => Steady(pool.replicas)
             ELSE runtime.spec = pool.replicas

PoolInv == RowsInv /\ PodsInv

-----------------------------------------------------------------------------
(* The gateways.                                                           *)

Free(s) == \A r \in Requests : req[r].by = s => req[r].owner = "none"

\* Nothing of a retired gateway runs, or ever will.
Gone(s) ==
    \A r \in Requests : req[r].by = s =>
        /\ req[r].owner # "gateway"
        /\ req[r].owner = "orphan" => Protocol = 2 /\ req[r].at \notin {"passed", "serving"}

\* A generation the pool was opened under.
Opened(g) == g < pool.generation \/ pool.state = "active"

\* Snapshots, grants and acknowledgements are of the past, in order.
Ordered(s) ==
    /\ view[s].acked =< view[s].delivered /\ view[s].delivered =< pool.generation
    /\ gate[s].generation =< pool.generation /\ reply[s].generation =< pool.generation
    /\ gate[s].sequence =< session[s].sequence /\ reply[s].sequence =< session[s].sequence
    /\ post[s].sequence =< gate[s].sequence
    /\ view[s].acked =< gate[s].generation

\* The last snapshot is the one that was recorded as delivered.
LastDelivered(s) ==
    view[s].delivered # 0 =>
        /\ reply[s].sequence = session[s].sequence => reply[s].generation = view[s].delivered
        /\ gate[s].sequence = session[s].sequence => gate[s].generation = view[s].delivered

\* Only an open generation was ever granted, and only to a participant.
GrantsOpen(s) ==
    /\ reply[s].accepting => Opened(reply[s].generation) /\ view[s].delivered # 0
    /\ gate[s].accepting => Opened(gate[s].generation) /\ view[s].delivered # 0
    /\ view[s].delivered = 0 =>
          view[s].acked = 0 /\ ~view[s].retired /\ view[s].active = 0 /\ Free(s)

\* The gateway's process and what is known of its end.
LifeKnown(s) ==
    /\ gate[s].closed => Free(s)
    /\ post[s].closed => gate[s].closed
    /\ \A r \in Requests : req[r].by = s =>
          /\ req[r].owner = "gateway" => gate[s].up
          /\ req[r].owner = "orphan" => ~gate[s].up
    /\ proof[s] = "terminated" => ~gate[s].up
    /\ session[s].fence # 0 => session[s].closed
    /\ session[s].fence =< fences
    /\ view[s].retired => session[s].closed /\ (gate[s].closed \/ ~gate[s].up)
    /\ view[s].active < 0 => view[s].retired /\ session[s].fence # 0 /\ ~gate[s].up

\* A report with no work in flight stays true as long as nothing is granted,
\* a recorded one as long as the pool stays closed under its generation.
ReportHolds(s) ==
    /\ post[s].sequence = gate[s].sequence /\ ~gate[s].accepting /\ post[s].active = 0
         => Free(s)
    /\ view[s].delivered # 0 /\ ~view[s].retired /\ view[s].active = 0
         /\ pool.state # "active" /\ view[s].acked = pool.generation
         => Free(s)
    /\ view[s].retired /\ view[s].active = 0 => Gone(s)

\* Nobody can enter a closed pool.
Shut(s) ==
    \/ view[s].delivered = 0
    \/ view[s].retired
    \/ ~gate[s].accepting /\ (reply[s].accepting => reply[s].generation < gate[s].generation)

GatewayInv(s) ==
    /\ Ordered(s) /\ LastDelivered(s) /\ GrantsOpen(s) /\ LifeKnown(s) /\ ReportHolds(s)
    /\ pool.state \in Closed => Shut(s)

-----------------------------------------------------------------------------
(* The evidence that nothing of the dead gateways runs.                    *)

\* No request of a gateway that ended by the fence t is, or will be, served.
Ended(t) ==
    \A r \in Requests, s \in Sessions :
        req[r].by = s /\ session[s].fence \in 1 .. t
            => req[r].at \notin {"passed", "serving"}

Unknown == {s \in Sessions : view[s].active < 0}

EvidenceInv ==
    /\ scrape.at =< fences /\ obs.fence =< fences
    /\ Protocol = 2 /\ scrape.idle => Ended(scrape.at)
    /\ Protocol = 2 /\ obs.idle => Ended(obs.fence)
    /\ Unknown # {} => \E s \in Unknown : \A x \in Unknown : session[x].fence =< session[s].fence

\* A closed pool is unused, and stays so.
ClosedInv ==
    pool.state \in Closed => \A r \in Requests :
        /\ req[r].owner # "gateway"
        /\ req[r].owner = "orphan" => Protocol = 2 /\ req[r].at # "serving"

\* Whoever is accounted for has a gateway.
OwnersKnown == \A r \in Requests : req[r].owner # "none" => req[r].by \in Sessions

IInv ==
    /\ Types /\ PoolInv /\ OwnersKnown /\ EvidenceInv /\ ClosedInv
    /\ \A s \in Sessions : GatewayInv(s)

-----------------------------------------------------------------------------
(* The operators.                                                          *)

\* What a setup allows.
LEMMA SetupFacts ==
  ASSUME Types
  PROVE  /\ Has.replicas \subseteq Nat \ {0} /\ Has.managed \in BOOLEAN
         /\ Has.minimum \in Nat \ {0}
         /\ Has.managed => Protocol = 2
         /\ Protocol \in {1, 2} /\ MaxGeneration \in Nat
  BY TrafficAssumption DEF Types, Has

\* The count a gateway reports is a number, and zero only without requests.
LEMMA InFlightFacts ==
  ASSUME NEW s \in Sessions
  PROVE  /\ InFlight(s) \in Nat
         /\ InFlight(s) = 0 => \A r \in Requests : req[r].by = s => req[r].owner # "gateway"
<1> DEFINE carried == {r \in Requests : req[r].by = s /\ req[r].owner = "gateway"}
<1>1. IsFiniteSet(carried)
  <2>1. carried \subseteq Requests
    OBVIOUS
  <2>. QED
    BY <2>1, TrafficAssumption, FS_Subset
<1>2. Cardinality(carried) \in Nat /\ (Cardinality(carried) = 0 <=> carried = {})
  BY <1>1, FS_CardinalityType, FS_EmptySet
<1>. QED
  BY <1>2 DEF InFlight

\* A gateway that runs and carries nothing has no request at all.
LEMMA IdleIsFree ==
  ASSUME Types, NEW s \in Sessions, LifeKnown(s), gate[s].up, InFlight(s) = 0
  PROVE  Free(s)
<1>1. \A r \in Requests : req[r].owner \in {"none", "gateway", "orphan"}
  BY DEF Types, Req
<1>. QED
  BY <1>1, InFlightFacts DEF Free, LifeKnown

\* idle_after is the newest of the fences whose work is unknown.
LEMMA IdleAfterFacts ==
  ASSUME Types, EvidenceInv, \A s \in Sessions : LifeKnown(s)
  PROVE  /\ IdleAfter \in Nat /\ IdleAfter =< fences
         /\ \A s \in Unknown : session[s].fence \in 1 .. IdleAfter
<1>1. \A s \in Sessions : session[s].fence \in Nat /\ session[s].fence =< fences /\ fences \in Nat
  BY DEF Types, Session, LifeKnown
<1>2. CASE Unknown = {}
  <2>1. IdleAfter = 0
    BY <1>2 DEF IdleAfter, Unknown
  <2>. QED
    BY <1>2, <2>1 DEF Types
<1>3. CASE Unknown # {}
  <2> DEFINE Newest(t) == t \in {session[s].fence : s \in Unknown} /\ \A s \in Unknown : session[s].fence =< t
  <2>1. \E t : Newest(t)
    BY <1>3 DEF EvidenceInv
  <2>2. IdleAfter = CHOOSE t \in {session[s].fence : s \in Unknown} : \A s \in Unknown : session[s].fence =< t
    BY <1>3 DEF IdleAfter, Unknown
  <2>3. Newest(IdleAfter)
    BY <2>1, <2>2
  <2>4. PICK x \in Unknown : IdleAfter = session[x].fence
    BY <2>3
  <2>5. \A s \in Unknown : session[s].fence # 0
    BY DEF Unknown, LifeKnown
  <2>. QED
    BY <1>1, <2>3, <2>4, <2>5 DEF Unknown
<1>. QED
  BY <1>2, <1>3

-----------------------------------------------------------------------------
(* The pool, its cluster and the running replicas.                         *)

\* What a pool step may do as far as the gateways are concerned: generations
\* only grow, opening or closing the pool takes a new one, and a pool counts
\* as drained only when nobody blocks it.
PoolMoves ==
    /\ pool.generation =< pool'.generation
    /\ pool'.generation = pool.generation => (pool'.state = "active" <=> pool.state = "active")
    /\ pool.state # "none" => pool'.state # "none"
    /\ pool'.state \in Closed =>
         \/ pool.state \in Closed
         \/ pool.state = "draining" /\ ~Blocked(view', pool.generation)

PoolTypes ==
    /\ pool \in Pool
    /\ cluster \in Cluster
    /\ runtime \in Runtime
    /\ obs \in Obs

\* No operation, as a value of its type.
LEMMA IdleType == Idle \in Op /\ Idle.phase = "none"
  BY DEF Idle, Op

\* An empty observation believes nothing.
LEMMA NoObsType == NoObs \in Obs /\ ~NoObs.ready /\ ~NoObs.idle /\ NoObs.fence = 0
  BY DEF NoObs, Obs

\* Replica counts, and what stands in their place.
LEMMA Counts ==
  /\ Nat \cup {Omitted, Deleted} \subseteq Int
  /\ Omitted \notin Nat /\ Deleted \notin Nat /\ Omitted # Deleted
  /\ \A n \in Nat : Deleted =< n
  BY DEF Omitted, Deleted

\* Nothing happens to the pool when an observation is dropped ...
LEMMA RoundStays ==
  ASSUME PoolInv, UNCHANGED <<pool, cluster, runtime>>, ~obs'.ready
  PROVE  PoolInv'
<1>1. RowsInv'
  BY DEF PoolInv, RowsInv, OperationOwnsPool, Approved
<1>2. PodsInv'
  BY DEF PoolInv, PodsInv, Steady, Rising, Falling
<1>. QED
  BY <1>1, <1>2 DEF PoolInv

\* ... or when another part of the system moves.
LEMMA PoolStays ==
  ASSUME PoolInv, UNCHANGED <<pool, cluster, runtime, obs>>
  PROVE  PoolInv'
<1>1. RowsInv'
  BY DEF PoolInv, RowsInv, OperationOwnsPool, Approved
<1>2. PodsInv'
  BY DEF PoolInv, PodsInv, Steady, Rising, Falling
<1>. QED
  BY <1>1, <1>2 DEF PoolInv

\* bind_pool opens the first generation.
LEMMA BindPoolKeeps ==
  ASSUME Types, PoolInv, BindPool
  PROVE  PoolTypes' /\ PoolInv' /\ PoolMoves
<1>0. pool.state = "none" /\ cluster.asks = pool.replicas
  BY DEF BindPool, PoolInv, RowsInv
<1>1. PoolTypes'
  BY <1>0 DEF BindPool, Types, PoolTypes, Pool, Cluster, agent
<1>2. /\ pool'.state = "pending" /\ pool'.generation = 1 /\ pool'.replicas = pool.replicas
      /\ pool'.op = pool.op /\ pool'.ready = pool.ready /\ pool'.nonce = pool.nonce
      /\ pool.state = "none" /\ UNCHANGED <<cluster, runtime, obs>>
  BY <1>0 DEF BindPool, Types, Pool, agent
<1>3. RowsInv'
  BY <1>0, <1>2, IdleType DEF PoolInv, RowsInv, OperationOwnsPool, Approved, Closed
<1>4. PodsInv'
  BY <1>2 DEF PoolInv, PodsInv, Steady, Rising, Falling
<1>5. PoolMoves
  BY <1>2 DEF PoolMoves, PoolInv, RowsInv, Closed
<1>. QED
  BY <1>1, <1>3, <1>4, <1>5 DEF PoolInv

\* A manual transition needs an idle pool.
LEMMA TransitionKeeps ==
  ASSUME Types, PoolInv, Drain \/ FinishDrain \/ Activate
  PROVE  PoolTypes' /\ PoolInv' /\ PoolMoves
<1>1. PICK state \in {"draining", "drained", "active"}, generation \in Nat :
        /\ Transition(state, generation)
        /\ \/ /\ state = "draining" /\ generation = pool.generation + 1
              /\ pool.state \in {"active", "pending"}
           \/ /\ state = "drained" /\ generation = pool.generation
              /\ pool.state = "draining" /\ ~Blocked(view, pool.generation)
           \/ /\ state = "active" /\ generation = pool.generation + 1
              /\ pool.state = "drained" /\ pool.ready
  BY DEF Drain, FinishDrain, Activate, Types, Pool
<1>2. PoolTypes'
  BY <1>1 DEF Transition, Types, PoolTypes, Pool, agent
<1>3. /\ pool'.state = state /\ pool'.generation = generation /\ pool'.nonce = FALSE
      /\ pool'.op = Idle /\ pool.op = Idle /\ pool'.ready = pool.ready
      /\ pool'.replicas = pool.replicas /\ UNCHANGED <<cluster, runtime, obs, view>>
      /\ pool.generation \in Nat
  BY <1>1 DEF Transition, NotScaling, Types, Pool, agent
<1>4. RowsInv'
  BY <1>1, <1>3, IdleType DEF PoolInv, RowsInv, OperationOwnsPool, Approved, Closed
<1>5. PodsInv'
  BY <1>1, <1>3, IdleType DEF PoolInv, PodsInv, Steady, Rising, Falling
<1>6. PoolMoves
  BY <1>1, <1>3 DEF PoolMoves, Closed
<1>. QED
  BY <1>2, <1>4, <1>5, <1>6 DEF PoolInv

\* put_desired asks for what the pool has, or for nothing.
LEMMA PutUnchangedKeeps ==
  ASSUME Types, PoolInv, PutUnchanged
  PROVE  PoolTypes' /\ PoolInv' /\ PoolMoves
<1>1. PICK asks \in {Omitted, IF pool.state = "retired" THEN Deleted ELSE pool.replicas} :
        Put(asks) /\ UNCHANGED pool
  BY DEF PutUnchanged
<1>2. /\ asks \in Nat \cup {Omitted, Deleted} /\ pool.state # "none"
      /\ asks \in {Omitted, Deleted, pool.replicas}
  BY <1>1 DEF Put, Types, Pool
<1> DEFINE resized == cluster.resized \/ asks \notin {Omitted, Deleted, pool.replicas}
<1>a. resized = cluster.resized /\ resized \in BOOLEAN /\ cluster.desired + 1 \in Nat
  BY <1>2 DEF Types, Cluster
<1>3. /\ cluster' = [cluster EXCEPT !.desired = cluster.desired + 1, !.asks = asks,
                                    !.resized = resized]
      /\ UNCHANGED <<runtime, obs, view>>
  BY <1>1 DEF Put, agent
<1> HIDE DEF resized
<1>4. cluster' \in Cluster /\ cluster'.asks = asks /\ cluster'.resized = resized
  BY <1>a, <1>2, <1>3 DEF Types, Cluster
<1>5. PoolTypes'
  BY <1>1, <1>3, <1>4 DEF Types, PoolTypes
<1>6. pool.op.phase = "applying" => asks \in {pool.op.target, Omitted}
  BY <1>1 DEF PoolInv, RowsInv, OperationOwnsPool
<1>7. RowsInv'
  BY <1>1, <1>2, <1>3, <1>4, <1>6 DEF PoolInv, RowsInv, OperationOwnsPool, Approved
<1>8. PodsInv'
  BY <1>a, <1>1, <1>3, <1>4 DEF PoolInv, PodsInv, Steady, Rising, Falling
<1>9. PoolMoves
  BY <1>1, <1>3 DEF PoolMoves, Types, Pool
<1>. QED
  BY <1>5, <1>7, <1>8, <1>9 DEF PoolInv

\* put_desired resizes or deletes a drained, idle pool only.
LEMMA PutMutationKeeps ==
  ASSUME Types, PoolInv, PutMutation
  PROVE  PoolTypes' /\ PoolInv' /\ PoolMoves
<1>1. PICK asks \in (Has.replicas \cup {0, Deleted}) \ {pool.replicas} :
        /\ pool.state = "drained" /\ NotScaling /\ Put(asks)
        /\ pool' = [pool EXCEPT !.state = IF asks = Deleted THEN "retired" ELSE @,
                                !.generation = @ + 1,
                                !.version = cluster.desired + 1,
                                !.replicas = IF asks = Deleted THEN @ ELSE asks,
                                !.ready = FALSE, !.nonce = FALSE]
  BY DEF PutMutation
<1>2. asks \in Nat \cup {Deleted} /\ asks # pool.replicas /\ asks # Omitted
  BY SetupFacts, Counts
<1> DEFINE state == IF asks = Deleted THEN "retired" ELSE "drained"
           count == IF asks = Deleted THEN pool.replicas ELSE asks
           resized == cluster.resized \/ asks # Deleted
<1>3. /\ pool' = [pool EXCEPT !.state = state, !.generation = pool.generation + 1,
                              !.version = cluster.desired + 1, !.replicas = count,
                              !.ready = FALSE, !.nonce = FALSE]
      /\ cluster' = [cluster EXCEPT !.desired = cluster.desired + 1, !.asks = asks,
                                    !.resized = resized]
      /\ pool.op = Idle /\ UNCHANGED <<runtime, obs, view>>
  BY <1>1, <1>2 DEF Put, NotScaling, agent
<1>4. /\ state \in Closed /\ count \in Nat /\ resized \in BOOLEAN
      /\ pool.generation + 1 \in Nat /\ cluster.desired + 1 \in Nat
      /\ asks = (IF state = "retired" THEN Deleted ELSE count)
      /\ resized \/ state = "retired"
  BY <1>2 DEF Closed, Types, Pool, Cluster
<1> HIDE DEF state, count, resized
<1>5. /\ pool' \in Pool /\ pool'.state = state /\ pool'.generation = pool.generation + 1
      /\ pool'.replicas = count /\ ~pool'.ready /\ ~pool'.nonce /\ pool'.op = Idle
  BY <1>3, <1>4 DEF Types, Pool, Closed
<1>6. cluster' \in Cluster /\ cluster'.asks = asks /\ cluster'.resized = resized
  BY <1>2, <1>3, <1>4 DEF Types, Cluster
<1>7. PoolTypes'
  BY <1>3, <1>5, <1>6 DEF Types, PoolTypes
<1>8. RowsInv'
  BY <1>4, <1>5, <1>6, IdleType DEF PoolInv, RowsInv, OperationOwnsPool, Closed, Types, Pool
<1>9. PodsInv'
  BY <1>4, <1>5, <1>6 DEF PodsInv
<1>10. PoolMoves
  BY <1>1, <1>4, <1>5 DEF PoolMoves, Closed, Types, Pool
<1>. QED
  BY <1>7, <1>8, <1>9, <1>10 DEF PoolInv

\* A step of the member that keeps the order in which the replicas follow
\* keeps the pool's invariant.
LEMMA FollowingKeeps ==
  ASSUME Types, PoolInv, UNCHANGED <<pool, cluster, obs>>,
         Approved => Approved',
         pool.state # "retired" =>
            /\ Steady(pool.replicas) => Steady(pool.replicas)'
            /\ Rising(pool.replicas) => Rising(pool.replicas)'
            /\ Falling(pool.replicas) => Falling(pool.replicas)',
         pool.state # "retired" /\ Steady(pool.replicas) /\ runtime.spec = pool.replicas
            => runtime'.spec = runtime.spec
  PROVE  PoolInv'
<1>1. RowsInv'
  BY DEF PoolInv, RowsInv, OperationOwnsPool
<1>2. PodsInv'
  BY DEF PoolInv, PodsInv
<1>. QED
  BY <1>1, <1>2 DEF PoolInv

\* The agent, the operator and Kubernetes bring the replicas along.
LEMMA MemberKeeps ==
  ASSUME Types, PoolInv, ApplyDesired \/ OperatorReads \/ OperatorWrites \/ Rollout
  PROVE  PoolTypes' /\ PoolInv' /\ PoolMoves
<1>1. UNCHANGED <<pool, cluster, obs, view>>
  BY DEF ApplyDesired, OperatorReads, OperatorWrites, Rollout, control, agent
<1>2. PoolMoves
  BY <1>1 DEF PoolMoves, Types, Pool
<1>3. /\ runtime \in Runtime /\ pool.replicas \in Nat
      /\ runtime.replicas \in Int /\ runtime.copy \in Nat /\ runtime.spec \in Nat
      /\ runtime.running \in Nat
  BY Counts DEF Types, Runtime, Pool
<1>4. CASE ApplyDesired
  <2>1. CASE cluster.asks = Omitted
    <3>1. /\ runtime' = [runtime EXCEPT !.applied = cluster.desired] /\ cluster.desired \in Nat
      BY <1>4, <2>1 DEF ApplyDesired, Types, Cluster
    <3>2. /\ runtime' \in Runtime /\ runtime'.replicas = runtime.replicas
          /\ runtime'.copy = runtime.copy /\ runtime'.spec = runtime.spec
          /\ runtime'.running = runtime.running
      BY <1>3, <3>1 DEF Runtime
    <3>3. PoolInv'
      BY <1>1, <3>2, FollowingKeeps DEF Approved, Steady, Rising, Falling
    <3>. QED
      BY <1>1, <1>2, <3>2, <3>3 DEF PoolTypes, Types
  <2>2. CASE cluster.asks # Omitted
    <3>1. /\ cluster.asks = (IF pool.state = "retired" THEN Deleted ELSE pool.replicas)
          /\ cluster.asks \in Nat \cup {Deleted} /\ cluster.desired \in Nat
      BY <2>2, <1>3 DEF PoolInv, RowsInv, Types, Cluster
    <3>2. runtime' = [runtime EXCEPT !.applied = cluster.desired, !.version = cluster.desired,
                                     !.replicas = cluster.asks]
      BY <1>4, <2>2 DEF ApplyDesired
    <3>3. /\ runtime' \in Runtime /\ runtime'.replicas = cluster.asks
          /\ runtime'.copy = runtime.copy /\ runtime'.spec = runtime.spec
          /\ runtime'.running = runtime.running
      BY <1>3, <3>1, <3>2 DEF Runtime
    <3>4. cluster.asks =< pool.replicas
      BY <1>3, <3>1, Counts
    <3>5. PoolInv'
      BY <1>1, <1>3, <3>1, <3>3, <3>4, FollowingKeeps DEF Approved, Steady, Rising, Falling
    <3>. QED
      BY <1>1, <1>2, <3>3, <3>5 DEF PoolTypes, Types
  <2>. QED
    BY <2>1, <2>2
<1>5. CASE OperatorReads
  <2>1. /\ runtime' = [runtime EXCEPT !.copy = runtime.replicas] /\ runtime.replicas \in Nat
    BY <1>3, <1>5 DEF OperatorReads, Runtime
  <2>2. /\ runtime' \in Runtime /\ runtime'.replicas = runtime.replicas
        /\ runtime'.copy = runtime.replicas /\ runtime'.spec = runtime.spec
        /\ runtime'.running = runtime.running
    BY <1>3, <2>1 DEF Runtime
  <2>3. PoolInv'
    BY <1>1, <1>3, <2>2, FollowingKeeps DEF Approved, Steady, Rising, Falling
  <2>. QED
    BY <1>1, <1>2, <2>2, <2>3 DEF PoolTypes, Types
<1>6. CASE OperatorWrites
  <2>1. runtime' = [runtime EXCEPT !.spec = runtime.copy, !.observed = FALSE]
    BY <1>6 DEF OperatorWrites
  <2>2. /\ runtime' \in Runtime /\ runtime'.replicas = runtime.replicas
        /\ runtime'.copy = runtime.copy /\ runtime'.spec = runtime.copy
        /\ runtime'.running = runtime.running
    BY <1>3, <2>1 DEF Runtime
  <2>3. PoolInv'
    BY <1>1, <1>3, <2>2, FollowingKeeps DEF Approved, Steady, Rising, Falling
  <2>. QED
    BY <1>1, <1>2, <2>2, <2>3 DEF PoolTypes, Types
<1>7. CASE Rollout
  <2>1. /\ runtime' \in Runtime /\ runtime'.replicas = runtime.replicas
        /\ runtime'.copy = runtime.copy
        /\ \/ runtime'.spec = runtime.spec /\ runtime'.running \in {runtime.running, runtime.spec}
           \/ runtime.replicas = Deleted
    <3>1. CASE runtime' = [runtime EXCEPT !.observed = TRUE]
      BY <1>3, <3>1 DEF Runtime
    <3>2. CASE runtime' = [runtime EXCEPT !.running = runtime.spec]
      BY <1>3, <3>2 DEF Runtime
    <3>3. CASE runtime.replicas = Deleted /\ runtime' = [runtime EXCEPT !.spec = 0]
      BY <1>3, <3>3 DEF Runtime
    <3>. QED
      BY <1>7, <3>1, <3>2, <3>3 DEF Rollout
  <2>2. PoolInv'
    BY <1>1, <1>3, <2>1, Counts, FollowingKeeps DEF Approved, Steady, Rising, Falling
  <2>. QED
    BY <1>1, <1>2, <2>1, <2>2 DEF PoolTypes, Types
<1>. QED
  BY <1>4, <1>5, <1>6, <1>7

\* The report of an applied revision, and the end of a readiness.
LEMMA RowKeeps ==
  ASSUME Types, PoolInv, ReportCluster \/ ReadyExpires
  PROVE  PoolTypes' /\ PoolInv' /\ PoolMoves
<1>1. CASE ReportCluster
  <2>1. /\ UNCHANGED <<pool, runtime, obs, view>> /\ cluster'.asks = cluster.asks
        /\ cluster'.resized = cluster.resized /\ PoolTypes'
    BY <1>1 DEF ReportCluster, agent, Types, PoolTypes, Cluster, Runtime
  <2>2. RowsInv'
    BY <2>1 DEF PoolInv, RowsInv, OperationOwnsPool, Approved
  <2>3. PodsInv'
    BY <2>1 DEF PoolInv, PodsInv, Steady, Rising, Falling
  <2>. QED
    BY <2>1, <2>2, <2>3 DEF PoolInv, PoolMoves, Types, Pool
<1>2. CASE ReadyExpires
  <2>1. /\ UNCHANGED <<cluster, runtime, obs, view>>
        /\ pool' = [pool EXCEPT !.ready = FALSE]
    BY <1>2 DEF ReadyExpires, agent
  <2>2. PoolTypes'
    BY <2>1 DEF Types, PoolTypes, Pool
  <2>3. /\ pool'.state = pool.state /\ pool'.generation = pool.generation /\ ~pool'.ready
        /\ pool'.op = pool.op /\ pool'.replicas = pool.replicas /\ pool'.nonce = pool.nonce
    BY <2>1 DEF Types, Pool
  <2>4. RowsInv'
    BY <2>1, <2>3 DEF PoolInv, RowsInv, OperationOwnsPool, Approved
  <2>5. PodsInv'
    BY <2>1, <2>3 DEF PoolInv, PodsInv, Steady, Rising, Falling
  <2>. QED
    BY <2>1, <2>2, <2>3, <2>4, <2>5 DEF PoolInv, PoolMoves, Types, Pool
<1>. QED
  BY <1>1, <1>2

\* What readiness says of the replicas: of a steady pool that it has its
\* Deployment, of a moving one that it has arrived if its pods have.
LEMMA ReadyFacts ==
  ASSUME Types, ReadyNow
  PROVE  /\ SpecSeen /\ runtime.replicas = pool.replicas
         /\ Steady(pool.replicas) => runtime.spec = pool.replicas
         /\ (Rising(pool.replicas) \/ Falling(pool.replicas)) /\ runtime.running = pool.replicas
              => Steady(pool.replicas)
<1>1. /\ runtime.copy \in Nat /\ runtime.spec \in Nat /\ runtime.running \in Nat
      /\ pool.replicas \in Nat /\ Has.managed \in BOOLEAN /\ Has.minimum \in Nat \ {0}
  BY SetupFacts DEF Types, Runtime, Pool
<1>2. runtime.replicas = pool.replicas /\ runtime.spec =< pool.replicas /\ runtime.spec # 0
  BY <1>1 DEF ReadyNow, SpecSeen, RuntimeReady
<1>. QED
  BY <1>1, <1>2 DEF ReadyNow, Steady, Rising, Falling

\* A round of the agent begins: readiness means that what runs fits.
LEMMA ObserveKeeps ==
  ASSUME Types, PoolInv, EvidenceInv, \A s \in Sessions : LifeKnown(s), Observe
  PROVE  PoolTypes' /\ PoolInv' /\ PoolMoves
<1>1. IdleAfter \in Nat
  BY IdleAfterFacts
<1>2. PICK answered \in BOOLEAN :
        obs' = [generation |-> pool.generation, fence |-> IdleAfter,
                seen |-> SpecSeen, ready |-> ReadyNow,
                applied |-> IF SpecSeen THEN runtime.running ELSE -1,
                idle |-> answered /\ IdleAfter # 0
                           /\ scrape.idle /\ scrape.at >= IdleAfter]
  BY DEF Observe
<1>3. /\ pool' = [pool EXCEPT !.fence = IdleAfter, !.nonce = TRUE]
      /\ pool.state # "none" /\ UNCHANGED <<cluster, runtime, view>>
  BY DEF Observe
<1>4. SpecSeen \in BOOLEAN /\ ReadyNow \in BOOLEAN
  BY DEF SpecSeen, ReadyNow
<1>5. (IF SpecSeen THEN runtime.running ELSE -1) \in Int
  BY DEF Types, Runtime
<1>6. obs' \in Obs
  BY <1>1, <1>2, <1>4, <1>5 DEF Obs, Types, Pool
<1>7. pool' \in Pool
  BY <1>1, <1>3 DEF Types, Pool
<1>8. ReadyNow => Approved
  BY ReadyFacts DEF Approved, Types, Pool
<1>9. /\ pool'.state = pool.state /\ pool'.generation = pool.generation /\ pool'.op = pool.op
      /\ pool'.ready = pool.ready /\ pool'.replicas = pool.replicas
  BY <1>3 DEF Types, Pool
<1>10. obs'.ready = ReadyNow /\ (ReadyNow => obs'.applied = runtime.running)
  BY <1>2, ReadyFacts
<1>11. RowsInv'
  BY <1>3, <1>8, <1>9, <1>10 DEF PoolInv, RowsInv, OperationOwnsPool, Approved
<1>12. PodsInv'
  <2>1. Steady(pool.replicas)' = Steady(pool.replicas) /\ Rising(pool.replicas)' = Rising(pool.replicas)
        /\ Falling(pool.replicas)' = Falling(pool.replicas)
    BY <1>3, <1>9 DEF Steady, Rising, Falling
  <2>. QED
    BY <1>3, <1>9, <1>10, <2>1, ReadyFacts DEF PoolInv, PodsInv, Types, Pool, Op
<1>. QED
  BY <1>3, <1>6, <1>7, <1>9, <1>11, <1>12 DEF PoolInv, PoolTypes, PoolMoves, Types, Pool

\* What a believed observation can do to pool and cluster (reconcile): nothing
\* more, end a scale-up, reopen, approve a smaller revision, approve a larger
\* one, or begin a scale-down.
LEMMA ReconciledCases ==
  ASSUME NEW p \in Pool, NEW views, NEW wanted \in Nat, Types
  PROVE  LET after == Reconciled(p, views, wanted) IN
         \/ after = [pool |-> p, cluster |-> cluster]
         \/ /\ p.op.phase = "applying" /\ p.op.up /\ RolledOut(p)
            /\ after = [pool |-> [p EXCEPT !.op = Idle], cluster |-> cluster]
         \/ /\ obs.ready /\ p.op.phase \in {"applying", "draining"}
            /\ p.op.phase = "applying" => RolledOut(p)
            /\ after = [pool |-> Reopened(p), cluster |-> cluster]
         \/ /\ p.op.phase = "draining" /\ ~Blocked(views, p.generation)
            /\ obs.ready /\ ~(wanted >= p.replicas)
            /\ after = Applied(p, wanted, FALSE)
         \/ /\ p.state = "active" /\ wanted > p.replicas
            /\ p.op.phase = "none" /\ after = Applied(p, wanted, TRUE)
         \/ /\ p.state = "active" /\ p.op.phase = "none"
            /\ after = [pool |-> [p EXCEPT !.state = "draining", !.generation = @ + 1,
                                           !.op = [phase |-> "draining", target |-> wanted,
                                                   up |-> FALSE, previous |-> p.version]],
                        cluster |-> cluster]
<1>1. Has.managed \in BOOLEAN /\ p.op.phase \in {"none", "draining", "applying"}
  BY SetupFacts DEF Pool, Op
<1>2. CASE ~Has.managed
  BY <1>2, Zenon DEF Reconciled
<1>3. CASE Has.managed /\ p.op.phase = "applying"
  BY <1>3, Zenon DEF Reconciled, RolledOut
<1>4. CASE Has.managed /\ p.op.phase = "draining"
  BY <1>4, Zenon DEF Reconciled
<1>5. CASE Has.managed /\ p.op.phase = "none"
  BY <1>5, Zenon DEF Reconciled
<1>. QED
  BY <1>1, <1>2, <1>3, <1>4, <1>5

\* A believed observation: pool and cluster move together, and the scale-down
\* is approved only when nobody blocks it.
LEMMA ObservePoolKeeps ==
  ASSUME Types, PoolInv, ObservePool
  PROVE  PoolTypes' /\ PoolInv' /\ PoolMoves
<1> DEFINE p == Observed
<1>0. /\ pool.nonce /\ obs \in Obs /\ pool \in Pool /\ pool.generation \in Nat
      /\ pool.generation + 1 \in Nat /\ cluster.desired + 1 \in Nat
      /\ cluster \in Cluster
      /\ pool.state \in {"none", "pending", "active", "draining", "drained", "retired"}
  BY DEF ObservePool, Current, Types, Pool, Cluster
<1>1. PICK wanted \in {0} \cup (IF obs.seen THEN Has.replicas ELSE {}) :
        /\ pool' = Reconciled(p, Cleared, wanted).pool
        /\ cluster' = Reconciled(p, Cleared, wanted).cluster
        /\ view' = Cleared /\ obs' = NoObs /\ UNCHANGED runtime
  BY DEF ObservePool
<1>2. wanted \in Nat
  BY SetupFacts
<1>3. obs.ready => Approved
  BY <1>0 DEF PoolInv, RowsInv
<1>4. /\ p \in Pool /\ p.op = pool.op /\ p.replicas = pool.replicas /\ p.version = pool.version
      /\ p.ready = obs.ready /\ ~p.nonce
      /\ \/ p.state = pool.state /\ p.generation = pool.generation
         \/ /\ p.state = "active" /\ p.generation = pool.generation + 1
            /\ pool.state = "pending" /\ obs.ready
  <2> DEFINE uid == (pool.uid \/ obs.seen)
  <2>0. uid \in BOOLEAN /\ obs.ready \in BOOLEAN
    BY <1>0 DEF Pool, Obs
  <2>1. CASE obs.ready /\ pool.state = "pending"
    <3>1. p = [pool EXCEPT !.nonce = FALSE, !.ready = obs.ready, !.uid = uid,
                           !.state = "active", !.generation = pool.generation + 1]
      BY <2>1 DEF Observed
    <3> HIDE DEF p, uid
    <3>. QED
      BY <1>0, <2>0, <2>1, <3>1 DEF Pool
  <2>2. CASE ~(obs.ready /\ pool.state = "pending")
    <3>1. p = [pool EXCEPT !.nonce = FALSE, !.ready = obs.ready, !.uid = uid,
                           !.state = pool.state, !.generation = pool.generation]
      BY <2>2 DEF Observed
    <3> HIDE DEF p, uid
    <3>. QED
      BY <1>0, <2>0, <2>2, <3>1 DEF Pool
  <2>. QED
    BY <2>1, <2>2
<1> HIDE DEF p
<1>5. /\ pool.state # "none" => p.state # "none"
      /\ cluster.asks \in {Omitted, IF p.state = "retired" THEN Deleted ELSE p.replicas}
      /\ p.state = "retired" <=> pool.state = "retired"
      /\ p.state # "none" => p.generation # 0
      /\ p.state = "none" => p.op = Idle /\ p.generation = 0 /\ cluster.asks = p.replicas
      /\ p.op.phase = "draining" => p.state = "draining" /\ pool.state = "draining" /\ p.generation = pool.generation
      /\ p.op.phase = "applying" =>
           /\ p.state = (IF p.op.up THEN "active" ELSE "drained") /\ pool.state = p.state
           /\ p.generation = pool.generation /\ p.replicas = p.op.target
           /\ cluster.asks \in {p.op.target, Omitted}
      /\ p.state \notin Closed \/ p.ready => Approved
      /\ pool.state = "none" => p.state = "none"
      /\ p.op \in Op /\ p.generation \in Nat /\ p.generation + 1 \in Nat /\ p.replicas \in Nat /\ p.version \in Nat
  BY <1>0, <1>3, <1>4 DEF PoolInv, RowsInv, OperationOwnsPool, Closed, Pool
<1>c. ~cluster.resized /\ p.state # "retired" =>
        /\ p.op.phase # "applying" =>
             Steady(p.replicas) /\ (obs.ready => runtime.spec = p.replicas)
        /\ p.op.phase = "applying" =>
             /\ IF p.op.up THEN Rising(p.replicas) ELSE Falling(p.replicas)
             /\ RolledOut(p) => Steady(p.replicas)
  BY <1>0, <1>4, <1>5 DEF PoolInv, PodsInv, RolledOut
<1>d. /\ runtime.replicas \in Int /\ runtime.copy \in Nat /\ runtime.spec \in Nat
      /\ runtime.running \in Nat /\ pool.replicas \in Nat /\ p.op.up \in BOOLEAN
      /\ cluster.asks \in Int /\ p.replicas \in Nat
  BY <1>4, <1>5, Counts DEF Types, Runtime, Pool, Cluster, Op
<1>a. p \in Pool /\ p.generation + 1 \in Nat
  BY <1>4, <1>5
<1>b. cluster.desired + 1 \in Nat
  BY <1>0
<1> DEFINE Kept(q, c) ==
             /\ q \in Pool /\ c \in Cluster
             /\ q.op.phase = "draining" => q.state = "draining"
             /\ q.op.phase = "applying" =>
                  /\ q.state = IF q.op.up THEN "active" ELSE "drained"
                  /\ q.replicas = q.op.target
                  /\ c.asks \in {q.op.target, Omitted}
             /\ q.state = "none" => q.op = Idle /\ q.generation = 0 /\ c.asks = q.replicas
             /\ q.state # "none" => q.generation # 0
             /\ c.asks \in {Omitted, IF q.state = "retired" THEN Deleted ELSE q.replicas}
             /\ q.state \notin Closed \/ q.ready => runtime.replicas =< q.replicas
           Follow(q, c) ==
             ~c.resized /\ q.state # "retired" =>
                /\ q.op.phase # "applying" => Steady(q.replicas)
                /\ q.op.phase = "applying" /\ q.op.up => Rising(q.replicas)
                /\ q.op.phase = "applying" /\ ~q.op.up => Falling(q.replicas)
           Moved(q) ==
             /\ pool.generation =< q.generation
             /\ q.generation = pool.generation => (q.state = "active" <=> pool.state = "active")
             /\ pool.state # "none" => q.state # "none"
             /\ q.state \in Closed =>
                  \/ pool.state \in Closed
                  \/ pool.state = "draining" /\ ~Blocked(Cleared, pool.generation)
<1>6. Kept(p, cluster) /\ Follow(p, cluster) /\ Moved(p)
  <2>1. Kept(p, cluster)
    BY <1>0, <1>4, <1>5 DEF Approved, Closed
  <2>2. Follow(p, cluster)
    BY <1>c
  <2>3. Moved(p)
    BY <1>0, <1>4, <1>5 DEF Closed
  <2>. QED
    BY <2>1, <2>2, <2>3
<1>7. SUFFICES Kept(pool', cluster') /\ Follow(pool', cluster') /\ Moved(pool')
  <2>1. PoolTypes'
    BY <1>1, <1>7, NoObsType DEF PoolTypes, Types
  <2>2. RowsInv'
    BY <1>1, <1>7, NoObsType DEF RowsInv, OperationOwnsPool, Approved
  <2>3. PodsInv'
    BY <1>1, <1>7, NoObsType DEF PodsInv, Steady, Rising, Falling
  <2>4. PoolMoves
    BY <1>1, <1>7 DEF PoolMoves
  <2>. QED
    BY <2>1, <2>2, <2>3, <2>4 DEF PoolInv
<1> DEFINE after == Reconciled(p, Cleared, wanted)
<1>8. pool' = after.pool /\ cluster' = after.cluster
  BY <1>1
<1>9. CASE after = [pool |-> p, cluster |-> cluster]
  <2>1. pool' = p /\ cluster' = cluster
    BY <1>8, <1>9
  <2>. QED
    BY <1>6, <2>1
<1>10. CASE /\ p.op.phase = "applying" /\ p.op.up /\ RolledOut(p)
            /\ after = [pool |-> [p EXCEPT !.op = Idle], cluster |-> cluster]
  <2>1. pool' = [p EXCEPT !.op = Idle] /\ cluster' = cluster
    BY <1>8, <1>10
  <2>2. /\ pool' \in Pool /\ pool'.op = Idle /\ pool'.state = p.state /\ pool'.generation = p.generation
        /\ pool'.replicas = p.replicas /\ pool'.ready = p.ready
    BY <1>4, <2>1, IdleType DEF Pool
  <2>. QED
    BY <1>c, <1>6, <1>10, <2>1, <2>2, IdleType
<1>11. CASE /\ obs.ready /\ p.op.phase \in {"applying", "draining"}
            /\ p.op.phase = "applying" => RolledOut(p)
            /\ after = [pool |-> Reopened(p), cluster |-> cluster]
  <2>1. pool' = [p EXCEPT !.op = Idle, !.state = "active", !.generation = p.generation + 1]
        /\ cluster' = cluster
    BY <1>8, <1>11 DEF Reopened
  <2>2. /\ pool' \in Pool /\ pool'.op = Idle /\ pool'.state = "active"
        /\ pool'.generation = p.generation + 1
        /\ pool'.replicas = p.replicas /\ pool'.ready = p.ready
    BY <1>4, <1>5, <2>1, IdleType DEF Pool
  <2>3. p.state # "none"
    BY <1>5, <1>11
  <2>4. p.state # "retired"
    BY <1>5, <1>11
  <2>5. Follow(pool', cluster')
    BY <1>c, <1>11, <2>1, <2>2, <2>4, IdleType
  <2>. QED
    BY <1>3, <1>4, <1>5, <1>6, <1>11, <2>1, <2>2, <2>3, <2>4, <2>5, IdleType DEF Closed, Approved
<1>12. ASSUME NEW up \in BOOLEAN, after = Applied(p, wanted, up),
              up => p.state = "active" /\ wanted > p.replicas /\ p.op.phase = "none",
              ~up => /\ p.op.phase = "draining" /\ ~Blocked(Cleared, p.generation)
                     /\ obs.ready /\ ~(wanted >= p.replicas)
       PROVE  Kept(pool', cluster') /\ Follow(pool', cluster') /\ Moved(pool')
  <2>1. CASE cluster.desired # cluster.acknowledged
    <3>1. pool' = p /\ cluster' = cluster
      BY <1>8, <1>12, <2>1 DEF Applied
    <3>. QED
      BY <1>6, <3>1
  <2>2. CASE cluster.desired = cluster.acknowledged
    <3> DEFINE op == [phase |-> "applying", target |-> wanted, up |-> up, previous |-> p.version]
    <3>1. op \in Op /\ op.phase = "applying" /\ op.target = wanted /\ op.up = up
      BY <1>2, <1>5, <1>12 DEF Op
    <3>2. /\ cluster' = [cluster EXCEPT !.desired = cluster.desired + 1, !.asks = wanted]
          /\ up => pool' = [p EXCEPT !.replicas = wanted, !.version = cluster.desired + 1,
                                     !.nonce = FALSE, !.op = op]
          /\ ~up => pool' = [p EXCEPT !.replicas = wanted, !.version = cluster.desired + 1,
                                      !.nonce = FALSE, !.op = op, !.state = "drained",
                                      !.ready = FALSE, !.generation = p.generation + 1]
      BY <1>4, <1>8, <1>12, <2>2 DEF Applied, Pool
    <3> HIDE DEF op
    <3>3. /\ cluster' \in Cluster /\ cluster'.asks = wanted
          /\ cluster'.resized = cluster.resized
      BY <1>0, <1>2, <3>2 DEF Cluster
    <3>4. CASE up
      <4>1. /\ pool' \in Pool /\ pool'.op = op /\ pool'.state = "active"
            /\ pool'.generation = p.generation /\ pool'.replicas = wanted /\ pool'.ready = p.ready
        <5>1. p.state = "active"
          BY <1>12, <3>4
        <5>. QED
          BY <1>a, <1>b, <1>2, <3>1, <3>2, <3>4, <5>1 DEF Pool
      <4>2. p.generation # 0 /\ Approved /\ p.state # "retired"
        BY <1>4, <1>5, <1>12, <3>4 DEF Closed
      <4>3. runtime.replicas =< wanted
        BY <1>2, <1>4, <1>d, <1>12, <3>4, <4>2 DEF Approved
      <4>4. ~cluster.resized => Rising(wanted)
        BY <1>c, <1>d, <1>2, <1>12, <3>4, <4>2 DEF Steady, Rising
      <4>5. Follow(pool', cluster')
        BY <3>1, <3>3, <3>4, <4>1, <4>4
      <4>. QED
        BY <1>6, <1>12, <3>1, <3>3, <3>4, <4>1, <4>2, <4>3, <4>5 DEF Closed
    <3>5. CASE ~up
      <4>1. /\ pool' \in Pool /\ pool'.op = op /\ pool'.state = "drained"
            /\ pool'.generation = p.generation + 1 /\ pool'.replicas = wanted /\ ~pool'.ready
        BY <1>a, <1>b, <1>2, <3>1, <3>2, <3>5 DEF Pool
      <4>2. pool.state = "draining" /\ p.generation = pool.generation
        BY <1>5, <1>12, <3>5
      <4>3. ~cluster.resized => Falling(wanted)
        BY <1>c, <1>d, <1>2, <1>5, <1>12, <3>5, <4>2 DEF Steady, Falling
      <4>4. Follow(pool', cluster')
        BY <3>1, <3>3, <3>5, <4>1, <4>3
      <4>. QED
        BY <1>0, <1>12, <3>1, <3>3, <3>5, <4>1, <4>2, <4>4 DEF Closed
    <3>. QED
      BY <1>12, <3>4, <3>5
  <2>. QED
    BY <2>1, <2>2
<1>13. CASE /\ p.state = "active" /\ p.op.phase = "none"
            /\ after = [pool |-> [p EXCEPT !.state = "draining", !.generation = @ + 1,
                                           !.op = [phase |-> "draining", target |-> wanted,
                                                   up |-> FALSE, previous |-> p.version]],
                        cluster |-> cluster]
  <2> DEFINE op == [phase |-> "draining", target |-> wanted, up |-> FALSE, previous |-> p.version]
  <2>1. op \in Op /\ op.phase = "draining"
    BY <1>2, <1>5 DEF Op
  <2>2. /\ pool' = [p EXCEPT !.state = "draining", !.generation = p.generation + 1, !.op = op]
        /\ cluster' = cluster
    BY <1>8, <1>13
  <2> HIDE DEF op
  <2>3. /\ pool' \in Pool /\ pool'.op = op /\ pool'.state = "draining"
        /\ pool'.generation = p.generation + 1 /\ pool'.replicas = p.replicas /\ pool'.ready = p.ready
    BY <1>a, <2>1, <2>2 DEF Pool
  <2>4. Follow(pool', cluster')
    BY <1>c, <1>13, <2>1, <2>2, <2>3
  <2>. QED
    BY <1>0, <1>5, <1>6, <1>13, <2>1, <2>2, <2>3, <2>4 DEF Closed
<1>14. \/ after = [pool |-> p, cluster |-> cluster]
       \/ /\ p.op.phase = "applying" /\ p.op.up /\ RolledOut(p)
          /\ after = [pool |-> [p EXCEPT !.op = Idle], cluster |-> cluster]
       \/ /\ obs.ready /\ p.op.phase \in {"applying", "draining"}
          /\ p.op.phase = "applying" => RolledOut(p)
          /\ after = [pool |-> Reopened(p), cluster |-> cluster]
       \/ /\ p.op.phase = "draining" /\ ~Blocked(Cleared, p.generation)
          /\ obs.ready /\ ~(wanted >= p.replicas)
          /\ after = Applied(p, wanted, FALSE)
       \/ /\ p.state = "active" /\ wanted > p.replicas
          /\ p.op.phase = "none" /\ after = Applied(p, wanted, TRUE)
       \/ /\ p.state = "active" /\ p.op.phase = "none"
          /\ after = [pool |-> [p EXCEPT !.state = "draining", !.generation = @ + 1,
                                         !.op = [phase |-> "draining", target |-> wanted,
                                                 up |-> FALSE, previous |-> p.version]],
                      cluster |-> cluster]
  BY <1>2, <1>4, ReconciledCases
<1> HIDE DEF after, Kept, Follow, Moved
<1>. QED
  BY <1>9, <1>10, <1>11, <1>12, <1>13, <1>14

-----------------------------------------------------------------------------
(* What the pool's steps leave of the gateways.                            *)

\* Evidence accepted by confirm_idle: the dead gateways it clears are gone.
LEMMA ClearedAreGone ==
  ASSUME IInv, ObservePool, obs.idle, NEW s \in Unknown
  PROVE  Gone(s)
<1>1. Protocol = 2 /\ obs.fence = IdleAfter /\ Ended(obs.fence)
  BY DEF ObservePool, Current, IdleAccepted, IInv, EvidenceInv
<1>2. s \in Sessions /\ session[s].fence \in 1 .. IdleAfter
  BY IdleAfterFacts DEF IInv, GatewayInv, Unknown
<1>3. \A r \in Requests : req[r].by = s => req[r].at \notin {"passed", "serving"}
  BY <1>1, <1>2 DEF Ended
<1>4. \A r \in Requests : req[r].by = s => req[r].owner # "gateway"
  BY <1>2 DEF IInv, GatewayInv, LifeKnown, Unknown
<1>. QED
  BY <1>1, <1>3, <1>4 DEF Gone

\* The views after a pool step: an unknown count may be cleared, and only of
\* a gateway that is gone.
ViewsKept ==
    \A s \in Sessions :
        \/ view'[s] = view[s]
        \/ /\ view[s].active < 0 /\ view[s].retired
           /\ view'[s] = [view[s] EXCEPT !.active = 0]
           /\ Gone(s)

\* Whatever moves the pool keeps every gateway's part of the invariant.
LEMMA GatewaysKept ==
  ASSUME IInv, PoolMoves, ViewsKept, pool' \in Pool,
         UNCHANGED <<session, gate, reply, post, req, proof, fences>>,
         NEW s \in Sessions
  PROVE  GatewayInv(s)' /\ view'[s] \in View
<1>1. GatewayInv(s) /\ pool \in Pool /\ view[s] \in View
  BY DEF IInv, Types
<1>2. /\ view'[s].delivered = view[s].delivered /\ view'[s].acked = view[s].acked
      /\ view'[s].retired = view[s].retired
      /\ \/ view'[s].active = view[s].active
         \/ view[s].active < 0 /\ view[s].retired /\ view'[s].active = 0 /\ Gone(s)
      /\ view'[s] \in View
  <2>1. CASE view'[s] = view[s]
    BY <1>1, <2>1
  <2>2. CASE /\ view[s].active < 0 /\ view[s].retired /\ Gone(s)
             /\ view'[s] = [view[s] EXCEPT !.active = 0]
    <3> DEFINE v == [view[s] EXCEPT !.active = 0]
    <3>1. /\ v \in View /\ v.delivered = view[s].delivered /\ v.acked = view[s].acked
          /\ v.retired = view[s].retired /\ v.active = 0
      BY <1>1 DEF View
    <3>. QED
      BY <2>2, <3>1
  <2>. QED
    BY <2>1, <2>2 DEF ViewsKept
<1>3. /\ session'[s] = session[s] /\ gate'[s] = gate[s] /\ reply'[s] = reply[s]
      /\ post'[s] = post[s] /\ proof'[s] = proof[s]
  OBVIOUS
<1>4. /\ session[s] \in Session /\ gate[s] \in Gate /\ reply[s] \in Reply /\ post[s] \in Post
      /\ pool.generation \in Nat /\ pool'.generation \in Nat /\ view[s].acked \in Nat /\ view[s].delivered \in Nat
      /\ gate[s].generation \in Nat /\ reply[s].generation \in Nat /\ view[s].active \in Int
  BY <1>1 DEF IInv, Types, View, Gate, Reply, Pool
<1>5. Free(s)' = Free(s) /\ Gone(s)' = Gone(s)
  BY DEF Free, Gone
<1>6. Ordered(s)' /\ LastDelivered(s)'
  BY <1>1, <1>2, <1>3, <1>4 DEF GatewayInv, Ordered, LastDelivered, PoolMoves
<1>7. GrantsOpen(s)'
  <2>1. ASSUME NEW g \in Nat, g =< pool.generation, Opened(g)
        PROVE  g < pool'.generation \/ pool'.state = "active"
    BY <1>4, <2>1 DEF Opened, PoolMoves
  <2>2. /\ reply[s].accepting => Opened(reply[s].generation)'
        /\ gate[s].accepting => Opened(gate[s].generation)'
    BY <1>1, <1>3, <1>4, <2>1 DEF GatewayInv, GrantsOpen, Ordered, Opened
  <2>. QED
    BY <1>1, <1>2, <1>3, <1>5, <2>2 DEF GatewayInv, GrantsOpen
<1>8. LifeKnown(s)'
  BY <1>1, <1>2, <1>3, <1>5 DEF GatewayInv, LifeKnown
<1>9. ReportHolds(s)'
  <2>1. view'[s].acked = pool'.generation => pool'.generation = pool.generation
    BY <1>1, <1>2, <1>4 DEF PoolMoves, GatewayInv, Ordered
  <2>. QED
    BY <1>1, <1>2, <1>3, <1>5, <2>1 DEF GatewayInv, ReportHolds, PoolMoves
<1>10. pool'.state \in Closed => Shut(s)'
  <2>1. CASE pool.state \in Closed
    BY <1>1, <1>2, <1>3, <2>1 DEF GatewayInv, Shut
  <2>2. CASE pool.state = "draining" /\ ~Blocked(view', pool.generation)
    <3> SUFFICES ASSUME view[s].delivered # 0, ~view[s].retired
                 PROVE  Shut(s)'
      BY <1>2 DEF Shut
    <3>1. view[s].acked >= pool.generation
      BY <1>2, <1>4, <2>2 DEF Blocked
    <3>2. gate[s].generation = pool.generation
      BY <1>1, <1>4, <3>1 DEF GatewayInv, Ordered
    <3>3. /\ ~gate[s].accepting
          /\ reply[s].accepting => reply[s].generation < gate[s].generation
      BY <1>1, <1>4, <2>2, <3>2 DEF GatewayInv, GrantsOpen, Opened
    <3>. QED
      BY <1>3, <3>3 DEF Shut
  <2>. QED
    BY <2>1, <2>2 DEF PoolMoves
<1>. QED
  BY <1>2, <1>6, <1>7, <1>8, <1>9, <1>10 DEF GatewayInv

\* A pool that becomes drained is unused: each gateway either reported no work
\* under this generation or is gone.
LEMMA ClosedKept ==
  ASSUME IInv, PoolMoves, ViewsKept, UNCHANGED req
  PROVE  ClosedInv'
<1> SUFFICES ASSUME pool'.state \in Closed, NEW r \in Requests, req[r].owner # "none"
             PROVE  req[r].owner # "gateway"
                    /\ (req[r].owner = "orphan" => Protocol = 2 /\ req[r].at # "serving")
  BY DEF ClosedInv
<1>1. CASE pool.state \in Closed
  BY <1>1 DEF IInv, ClosedInv
<1>2. CASE pool.state = "draining" /\ ~Blocked(view', pool.generation)
  <2> DEFINE s == req[r].by
  <2>1. s \in Sessions
    BY DEF IInv, OwnersKnown
  <2>2. GatewayInv(s) /\ view[s] \in View /\ pool.generation \in Nat
    BY <2>1 DEF IInv, Types, Pool
  <2>3. view[s].delivered # 0 /\ view'[s].delivered # 0
    <3>1. ~Free(s)
      BY DEF Free
    <3>. QED
      BY <2>1, <2>2, <3>1 DEF GatewayInv, GrantsOpen, ViewsKept, View
  <2>4. view'[s].active = 0 /\ (view'[s].retired \/ view'[s].acked >= pool.generation)
    <3>1. view'[s].acked \in Nat
      BY <2>1, <2>2 DEF ViewsKept, View
    <3> HIDE DEF s
    <3>. QED
      BY <1>2, <2>1, <2>2, <2>3, <3>1 DEF Blocked
  <2>5. CASE ~view[s].retired
    <3>1. view'[s] = view[s]
      BY <2>1, <2>5 DEF ViewsKept
    <3>2. view[s].acked = pool.generation
      BY <2>2, <2>4, <2>5, <3>1 DEF GatewayInv, Ordered, View
    <3>3. Free(s)
      BY <1>2, <2>2, <2>3, <2>4, <2>5, <3>1, <3>2 DEF GatewayInv, ReportHolds
    <3>. QED
      BY <3>3 DEF Free
  <2>6. CASE view[s].retired
    <3>1. Gone(s)
      BY <2>1, <2>2, <2>4, <2>6 DEF GatewayInv, ReportHolds, ViewsKept
    <3>. QED
      BY <3>1 DEF Gone
  <2>. QED
    BY <2>5, <2>6
<1>. QED
  BY <1>1, <1>2 DEF PoolMoves

-----------------------------------------------------------------------------
(* Every step of the pool and the member.                                  *)

\* What such a step leaves alone, and what it does to the evidence.
LEMMA PoolStepKeeps ==
  ASSUME IInv, PoolTypes', PoolInv', PoolMoves, ViewsKept, view' \in [Sessions -> View],
         UNCHANGED <<setup, session, gate, reply, post, req, proof, scrape, fences>>,
         obs'.fence =< fences,
         Protocol = 2 /\ obs'.idle => Ended(obs'.fence),
         Unknown' = {} \/ Unknown' = Unknown
  PROVE  IInv'
<1>1. Types'
  BY DEF IInv, Types, PoolTypes
<1>2. \A s \in Sessions : GatewayInv(s)'
  BY GatewaysKept DEF PoolTypes
<1>3. ClosedInv'
  BY ClosedKept
<1>4. OwnersKnown'
  BY DEF IInv, OwnersKnown
<1>5. ASSUME NEW t PROVE Ended(t)' = Ended(t)
  BY DEF Ended
<1>6. EvidenceInv'
  <2>1. Protocol = 2 /\ scrape'.idle => Ended(scrape'.at)
    BY DEF IInv, EvidenceInv
  <2>2. \A t : t = scrape' => (Protocol = 2 /\ t.idle => Ended(t.at)')
    BY <1>5, <2>1
  <2>3. \A t : t = obs' => (Protocol = 2 /\ t.idle => Ended(t.fence)')
    BY <1>5
  <2>4. (Unknown # {} => \E s \in Unknown : \A x \in Unknown : session[x].fence =< session[s].fence)'
    BY DEF IInv, EvidenceInv
  <2>5. (Protocol = 2 /\ scrape.idle => Ended(scrape.at))' /\ (Protocol = 2 /\ obs.idle => Ended(obs.fence))'
    BY <2>2, <2>3 DEF Ended
  <2>6. scrape'.at =< fences'
    BY DEF IInv, EvidenceInv
  <2>. QED
    BY <2>4, <2>5, <2>6 DEF EvidenceInv
<1>. QED
  BY <1>1, <1>2, <1>3, <1>4, <1>6 DEF IInv

\* The steps that neither observe nor touch a view.
LEMMA PlainPoolSteps ==
  ASSUME IInv, \/ BindPool \/ Drain \/ FinishDrain \/ Activate \/ ReadyExpires
               \/ PutUnchanged \/ PutMutation \/ ApplyDesired \/ ReportCluster
               \/ OperatorReads \/ OperatorWrites \/ Rollout
  PROVE  IInv'
<1>1. PoolTypes' /\ PoolInv' /\ PoolMoves
  BY BindPoolKeeps, TransitionKeeps, PutUnchangedKeeps, PutMutationKeeps, MemberKeeps, RowKeeps
     DEF IInv
<1>2. UNCHANGED <<setup, session, view, gate, reply, post, req, obs, proof, scrape, fences>>
  <2>1. CASE BindPool \/ Drain \/ FinishDrain \/ Activate
    BY <2>1 DEF BindPool, Drain, FinishDrain, Activate, Transition, wire, agent
  <2>2. CASE ReadyExpires \/ PutUnchanged \/ PutMutation \/ ReportCluster
    BY <2>2 DEF ReadyExpires, PutUnchanged, PutMutation, Put, ReportCluster, wire, agent
  <2>3. CASE ApplyDesired \/ OperatorReads \/ OperatorWrites \/ Rollout
    BY <2>3 DEF ApplyDesired, OperatorReads, OperatorWrites, Rollout, wire, agent, control
  <2>. QED
    BY <2>1, <2>2, <2>3
<1>3. ViewsKept /\ Unknown' = Unknown /\ view' \in [Sessions -> View]
  BY <1>2 DEF ViewsKept, Unknown, IInv, Types
<1>4. obs'.fence =< fences /\ (Protocol = 2 /\ obs'.idle => Ended(obs'.fence))
  BY <1>2 DEF IInv, EvidenceInv
<1>. QED
  BY <1>1, <1>2, <1>3, <1>4, PoolStepKeeps

\* A round of the agent: the evidence it reads is as old as the newest fence.
LEMMA ObserveStep ==
  ASSUME IInv, Observe
  PROVE  IInv'
<1>1. PoolTypes' /\ PoolInv' /\ PoolMoves
  BY ObserveKeeps DEF IInv, GatewayInv
<1>2. UNCHANGED <<setup, session, view, gate, reply, post, req, proof, scrape, fences>>
  BY DEF Observe, wire
<1>3. ViewsKept /\ Unknown' = Unknown /\ view' \in [Sessions -> View]
  BY <1>2 DEF ViewsKept, Unknown, IInv, Types
<1>4. /\ obs'.fence = IdleAfter
      /\ obs'.idle => scrape.idle /\ scrape.at >= IdleAfter
  <2>1. PICK answered \in BOOLEAN :
          obs' = [generation |-> pool.generation, fence |-> IdleAfter,
                  seen |-> SpecSeen, ready |-> ReadyNow,
                  applied |-> IF SpecSeen THEN runtime.running ELSE -1,
                  idle |-> answered /\ IdleAfter # 0
                             /\ scrape.idle /\ scrape.at >= IdleAfter]
    BY DEF Observe
  <2>2. obs'.idle = (answered /\ IdleAfter # 0 /\ scrape.idle /\ scrape.at >= IdleAfter)
    BY <2>1
  <2>. QED
    BY <2>1, <2>2
<1>5. IdleAfter \in Nat /\ IdleAfter =< fences
  BY IdleAfterFacts DEF IInv, GatewayInv
<1>6. Protocol = 2 /\ obs'.idle => Ended(obs'.fence)
  <2> SUFFICES ASSUME Protocol = 2, obs'.idle PROVE Ended(IdleAfter)
    BY <1>4
  <2>1. Ended(scrape.at) /\ scrape.at \in Nat /\ scrape.at >= IdleAfter
    BY <1>4 DEF IInv, EvidenceInv, Types
  <2>. QED
    BY <1>5, <2>1 DEF Ended, IInv, Types, Session
<1>. QED
  BY <1>1, <1>2, <1>3, <1>4, <1>5, <1>6, PoolStepKeeps

\* The round ends without an effect.
LEMMA RoundEnds ==
  ASSUME IInv, Abandon \/ Refused
  PROVE  IInv'
<1>1. /\ UNCHANGED <<setup, pool, cluster, runtime, session, view, gate, reply, post, req, proof,
                     scrape, fences>>
      /\ obs' = NoObs
  BY DEF Abandon, Refused, control, wire
<1>2. PoolTypes' /\ PoolInv' /\ PoolMoves
  <2>1. PoolTypes'
    BY <1>1, NoObsType DEF IInv, Types, PoolTypes
  <2>2. PoolInv'
    BY <1>1, NoObsType, RoundStays DEF IInv
  <2>3. PoolMoves
    BY <1>1 DEF IInv, Types, Pool, PoolMoves
  <2>. QED
    BY <2>1, <2>2, <2>3
<1>3. ViewsKept /\ Unknown' = Unknown /\ view' \in [Sessions -> View]
  BY <1>1 DEF ViewsKept, Unknown, IInv, Types
<1>4. obs'.fence =< fences /\ ~obs'.idle
  BY <1>1, NoObsType DEF IInv, Types
<1>. QED
  BY <1>1, <1>2, <1>3, <1>4, PoolStepKeeps

\* A believed observation, with confirm_idle and reconcile.
LEMMA ObservePoolStep ==
  ASSUME IInv, ObservePool
  PROVE  IInv'
<1>1. PoolTypes' /\ PoolInv' /\ PoolMoves
  BY ObservePoolKeeps DEF IInv
<1>2. /\ UNCHANGED <<setup, session, gate, reply, post, req, proof, scrape, fences>>
      /\ obs' = NoObs /\ view' = Cleared
  BY DEF ObservePool, wire
<1>3. \A s \in Sessions : view'[s] = IF obs.idle /\ view[s].retired /\ view[s].active < 0
                                     THEN [view[s] EXCEPT !.active = 0] ELSE view[s]
  BY <1>2 DEF Cleared
<1>4. ViewsKept
  <2>1. ASSUME NEW s \in Sessions, obs.idle, view[s].retired, view[s].active < 0
        PROVE  Gone(s)
    BY <2>1, ClearedAreGone DEF Unknown
  <2>. QED
    BY <1>3, <2>1 DEF ViewsKept
<1>5. view' \in [Sessions -> View]
  <2>1. \A s \in Sessions : view'[s] \in View
    <3> SUFFICES ASSUME NEW s \in Sessions PROVE view'[s] \in View
      OBVIOUS
    <3>1. view[s] \in View /\ [view[s] EXCEPT !.active = 0] \in View
      BY DEF IInv, Types, View
    <3>. QED
      BY <1>3, <3>1
  <2>. QED
    BY <1>2, <2>1 DEF Cleared
<1>6. Unknown' = {} \/ Unknown' = Unknown
  <2>1. \A s \in Unknown : view[s].retired
    BY DEF Unknown, IInv, GatewayInv, LifeKnown
  <2>2. CASE obs.idle
    <3>1. ASSUME NEW s \in Sessions PROVE ~(view'[s].active < 0)
      <4>1. CASE view[s].active < 0
        <5>1. view'[s] = [view[s] EXCEPT !.active = 0] /\ view[s] \in View
          BY <1>3, <2>1, <2>2, <4>1 DEF Unknown, IInv, Types
        <5>. QED
          BY <5>1 DEF View
      <4>2. CASE ~(view[s].active < 0)
        BY <1>3, <4>2
      <4>. QED
        BY <4>1, <4>2
    <3>. QED
      BY <3>1 DEF Unknown
  <2>3. CASE ~obs.idle
    BY <1>3, <2>3 DEF Unknown
  <2>. QED
    BY <2>2, <2>3
<1>7. obs'.fence =< fences /\ ~obs'.idle
  BY <1>2, NoObsType DEF IInv, Types
<1>. QED
  BY <1>1, <1>2, <1>4, <1>5, <1>6, <1>7, PoolStepKeeps

-----------------------------------------------------------------------------
(* The gateways' steps.                                                    *)

\* A step of one gateway leaves the others alone.
LEMMA GatewayStepKeeps ==
  ASSUME IInv, Types', EvidenceInv', NEW s \in Sessions, GatewayInv(s)',
         UNCHANGED <<pool, cluster, runtime, req, obs, scrape>>, fences =< fences',
         \A x \in Sessions \ {s} :
            /\ session'[x] = session[x] /\ view'[x] = view[x] /\ gate'[x] = gate[x]
            /\ reply'[x] = reply[x] /\ post'[x] = post[x] /\ proof'[x] = proof[x]
  PROVE  IInv'
<1>1. ASSUME NEW x \in Sessions, x # s
      PROVE  GatewayInv(x)'
  <2>1. /\ session'[x] = session[x] /\ view'[x] = view[x] /\ gate'[x] = gate[x]
        /\ reply'[x] = reply[x] /\ post'[x] = post[x] /\ proof'[x] = proof[x]
    BY <1>1
  <2>2. GatewayInv(x) /\ session[x].fence \in Nat /\ fences \in Nat /\ fences' \in Nat
    BY <1>1 DEF IInv, Types, Session
  <2>3. Free(x)' = Free(x) /\ Gone(x)' = Gone(x)
    BY DEF Free, Gone
  <2>4. Ordered(x)' /\ LastDelivered(x)'
    BY <2>1, <2>2 DEF GatewayInv, Ordered, LastDelivered
  <2>5. GrantsOpen(x)'
    BY <2>1, <2>2, <2>3 DEF GatewayInv, GrantsOpen, Opened
  <2>6. LifeKnown(x)'
    BY <2>1, <2>2, <2>3 DEF GatewayInv, LifeKnown
  <2>7. ReportHolds(x)'
    BY <2>1, <2>2, <2>3 DEF GatewayInv, ReportHolds
  <2>8. pool'.state \in Closed => Shut(x)'
    BY <2>1, <2>2 DEF GatewayInv, Shut
  <2>. QED
    BY <2>4, <2>5, <2>6, <2>7, <2>8 DEF GatewayInv
<1>2. PoolInv' /\ ClosedInv' /\ OwnersKnown'
  BY PoolStays DEF IInv, ClosedInv, OwnersKnown
<1>. QED
  BY <1>1, <1>2 DEF IInv

\* Evidence stays good when no fence is set and no count becomes unknown.
LEMMA EvidenceStays ==
  ASSUME IInv, UNCHANGED <<req, fences, scrape, obs>>,
         \A x \in Sessions : /\ session'[x].fence = session[x].fence
                             /\ view'[x].active < 0 <=> view[x].active < 0
  PROVE  EvidenceInv'
<1>1. Unknown' = Unknown
  BY DEF Unknown
<1>2. \A x \in Unknown : session'[x].fence = session[x].fence
  BY DEF Unknown
<1>3. Ended(scrape.at)' = Ended(scrape.at) /\ Ended(obs.fence)' = Ended(obs.fence)
  BY DEF Ended
<1>. QED
  BY <1>1, <1>2, <1>3 DEF IInv, EvidenceInv

\* Installing a snapshot: the newest one is the one delivered.
LEMMA InstallStep ==
  ASSUME IInv, NEW s \in Sessions, Install(s)
  PROVE  IInv'
<1>1. /\ gate[s].up /\ reply[s].sequence > gate[s].sequence
      /\ reply[s].generation >= gate[s].generation
      /\ gate' = [gate EXCEPT ![s].sequence = reply[s].sequence,
                              ![s].generation = reply[s].generation,
                              ![s].accepting = reply[s].accepting]
      /\ UNCHANGED <<setup, pool, cluster, session, view, fences, runtime, reply, post, req,
                     obs, proof, scrape>>
  BY DEF Install, control, wire, agent
<1>2. /\ session[s] \in Session /\ view[s] \in View /\ gate[s] \in Gate /\ reply[s] \in Reply
      /\ post[s] \in Post /\ pool.generation \in Nat /\ GatewayInv(s)
      /\ gate \in [Sessions -> Gate]
  BY DEF IInv, Types, Pool
<1>3. /\ gate'[s].sequence = reply[s].sequence /\ gate'[s].generation = reply[s].generation
      /\ gate'[s].accepting = reply[s].accepting /\ gate'[s].up = gate[s].up
      /\ gate'[s].closed = gate[s].closed
      /\ \A x \in Sessions \ {s} : gate'[x] = gate[x]
      /\ gate' \in [Sessions -> Gate]
  BY <1>1, <1>2 DEF Gate, Reply
<1>4. Types'
  BY <1>1, <1>3 DEF IInv, Types
<1>5. EvidenceInv'
  BY <1>1, EvidenceStays
<1>6. Free(s)' = Free(s) /\ Gone(s)' = Gone(s)
  BY <1>1 DEF Free, Gone
<1>7. Ordered(s)' /\ LastDelivered(s)'
  BY <1>1, <1>2, <1>3 DEF GatewayInv, Ordered, LastDelivered, Session, View, Gate, Reply, Post
<1>8. GrantsOpen(s)'
  BY <1>1, <1>2, <1>3, <1>6 DEF GatewayInv, GrantsOpen, Opened
<1>9. LifeKnown(s)'
  BY <1>1, <1>2, <1>3, <1>6 DEF GatewayInv, LifeKnown
<1>10. ReportHolds(s)'
  <2>1. post[s].sequence # gate'[s].sequence
    BY <1>1, <1>2, <1>3 DEF GatewayInv, Ordered, Gate, Reply, Post
  <2>. QED
    BY <1>1, <1>2, <1>3, <1>6, <2>1 DEF GatewayInv, ReportHolds
<1>11. pool'.state \in Closed => Shut(s)'
  BY <1>1, <1>2, <1>3 DEF GatewayInv, Shut, Gate, Reply
<1>12. GatewayInv(s)'
  BY <1>7, <1>8, <1>9, <1>10, <1>11 DEF GatewayInv
<1>13. fences =< fences'
  BY <1>1 DEF IInv, Types
<1>. QED
  BY <1>1, <1>3, <1>4, <1>5, <1>12, <1>13, GatewayStepKeeps

\* A report is built while nothing can enter.
LEMMA ReportStep ==
  ASSUME IInv, NEW s \in Sessions, Report(s)
  PROVE  IInv'
<1>1. /\ gate[s].up /\ gate[s].sequence > post[s].sequence
      /\ post' = [post EXCEPT ![s] = [sequence |-> gate[s].sequence, closed |-> gate[s].closed,
                                      active |-> InFlight(s)]]
      /\ UNCHANGED <<setup, pool, cluster, session, view, fences, runtime, gate, reply, req,
                     obs, proof, scrape>>
  BY DEF Report, control, agent
<1>2. /\ gate[s] \in Gate /\ GatewayInv(s) /\ post \in [Sessions -> Post]
      /\ InFlight(s) \in Nat
  BY InFlightFacts DEF IInv, Types
<1>3. /\ post'[s].sequence = gate[s].sequence /\ post'[s].closed = gate[s].closed
      /\ post'[s].active = InFlight(s)
      /\ \A x \in Sessions \ {s} : post'[x] = post[x]
      /\ post' \in [Sessions -> Post]
  BY <1>1, <1>2 DEF Gate, Post
<1>4. Types'
  BY <1>1, <1>3 DEF IInv, Types
<1>5. EvidenceInv'
  BY <1>1, EvidenceStays
<1>6. Free(s)' = Free(s) /\ Gone(s)' = Gone(s)
  BY <1>1 DEF Free, Gone
<1>7. Ordered(s)' /\ LastDelivered(s)'
  BY <1>1, <1>2, <1>3 DEF GatewayInv, Ordered, LastDelivered, Gate
<1>8. GrantsOpen(s)' /\ LifeKnown(s)'
  BY <1>1, <1>2, <1>3, <1>6 DEF GatewayInv, GrantsOpen, Opened, LifeKnown
<1>9. ReportHolds(s)'
  <2>1. post'[s].active = 0 => Free(s)
    BY <1>1, <1>2, <1>3, IdleIsFree DEF IInv, GatewayInv
  <2>. QED
    BY <1>1, <1>2, <1>6, <2>1 DEF GatewayInv, ReportHolds
<1>10. pool'.state \in Closed => Shut(s)'
  BY <1>1, <1>2 DEF GatewayInv, Shut
<1>11. GatewayInv(s)'
  BY <1>7, <1>8, <1>9, <1>10 DEF GatewayInv
<1>12. fences =< fences'
  BY <1>1 DEF IInv, Types
<1>. QED
  BY <1>1, <1>3, <1>4, <1>5, <1>11, <1>12, GatewayStepKeeps

\* A snapshot is handed out under the pool's generation, and recorded so.
LEMMA SnapshotStep ==
  ASSUME IInv, NEW s \in Sessions, TrafficSnapshot(s)
  PROVE  IInv'
<1> DEFINE joins == pool.state # "none" /\ (view[s].delivered # 0 \/ Accepting(s))
           handed == [sequence |-> session[s].sequence + 1, generation |-> pool.generation,
                      accepting |-> Accepting(s)]
<1>1. /\ ~session[s].closed
      /\ session' = [session EXCEPT ![s].sequence = @ + 1, ![s].reported = FALSE]
      /\ view' = IF joins THEN [view EXCEPT ![s].delivered = pool.generation] ELSE view
      /\ reply' = [reply EXCEPT ![s] = handed] \/ reply' = reply
      /\ UNCHANGED <<setup, pool, cluster, fences, runtime, gate, post, req, obs, proof, scrape>>
  BY DEF TrafficSnapshot, agent
<1>2. /\ session \in [Sessions -> Session] /\ view \in [Sessions -> View]
      /\ reply \in [Sessions -> Reply] /\ gate[s] \in Gate /\ post[s] \in Post
      /\ pool.generation \in Nat /\ GatewayInv(s) /\ PoolInv
  BY DEF IInv, Types, Pool
<1>3. Accepting(s) \in BOOLEAN /\ (Accepting(s) => pool.state = "active")
  BY DEF Accepting
<1>4. session[s].sequence \in Nat /\ session[s].sequence + 1 \in Nat
  BY <1>2 DEF Session
<1>5. /\ session'[s].sequence = session[s].sequence + 1 /\ session'[s].closed = session[s].closed
      /\ session'[s].fence = session[s].fence
      /\ \A x \in Sessions \ {s} : session'[x] = session[x]
      /\ session' \in [Sessions -> Session]
  BY <1>1, <1>2, <1>4 DEF Session
<1>6. /\ view'[s].delivered = (IF joins THEN pool.generation ELSE view[s].delivered)
      /\ view'[s].acked = view[s].acked /\ view'[s].active = view[s].active
      /\ view'[s].retired = view[s].retired
      /\ \A x \in Sessions \ {s} : view'[x] = view[x]
      /\ view' \in [Sessions -> View]
  <2>1. CASE joins
    <3>1. view' = [view EXCEPT ![s].delivered = pool.generation]
      BY <1>1, <2>1
    <3> HIDE DEF joins
    <3>. QED
      BY <1>2, <2>1, <3>1 DEF View
  <2>2. CASE ~joins
    BY <1>1, <1>2, <2>2
  <2>. QED
    BY <2>1, <2>2
<1>7. handed \in Reply
  BY <1>2, <1>3, <1>4 DEF Reply
<1>8. /\ reply'[s] = handed \/ reply'[s] = reply[s]
      /\ \A x \in Sessions \ {s} : reply'[x] = reply[x]
      /\ reply' \in [Sessions -> Reply]
  <2> HIDE DEF handed
  <2>. QED
    BY <1>1, <1>2, <1>7
<1>9. handed.sequence = session[s].sequence + 1 /\ handed.generation = pool.generation
      /\ handed.accepting = Accepting(s)
  OBVIOUS
<1>10. Types'
  BY <1>1, <1>5, <1>6, <1>8 DEF IInv, Types
<1>11. EvidenceInv'
  BY <1>1, <1>5, <1>6, EvidenceStays
<1>12. Free(s)' = Free(s) /\ Gone(s)' = Gone(s)
  BY <1>1 DEF Free, Gone
<1>13. /\ ~view[s].retired /\ session[s].fence = 0
       /\ view[s].delivered \in Nat /\ view[s].acked \in Nat /\ reply[s].sequence \in Nat
       /\ reply[s].generation \in Nat /\ gate[s].sequence \in Nat /\ gate[s].generation \in Nat
       /\ post[s].sequence \in Nat
  BY <1>1, <1>2 DEF GatewayInv, LifeKnown, View, Reply, Gate, Post
<1>14. /\ view'[s].delivered # 0 => view'[s].delivered = pool.generation
       /\ Accepting(s) => view'[s].delivered = pool.generation /\ pool.generation # 0
       /\ view'[s].delivered = 0 => view[s].delivered = 0
       /\ view[s].delivered =< view'[s].delivered /\ view'[s].delivered =< pool.generation
       /\ view'[s].delivered \in Nat
  <2>1. view[s].delivered # 0 => pool.state # "none"
    BY <1>2, <1>13 DEF GatewayInv, Ordered, PoolInv, RowsInv
  <2>2. view[s].delivered =< pool.generation
    BY <1>2 DEF GatewayInv, Ordered
  <2>3. pool.state # "none" => pool.generation # 0
    BY <1>2 DEF PoolInv, RowsInv
  <2>. QED
    BY <1>2, <1>3, <1>6, <1>13, <2>1, <2>2, <2>3
<1> HIDE DEF joins, handed
<1>15. Ordered(s)'
  BY <1>1, <1>2, <1>4, <1>5, <1>6, <1>8, <1>9, <1>13, <1>14 DEF GatewayInv, Ordered
<1>16. LastDelivered(s)'
  <2>1. reply[s].sequence # session'[s].sequence /\ gate[s].sequence # session'[s].sequence
    BY <1>2, <1>4, <1>5, <1>13 DEF GatewayInv, Ordered
  <2>. QED
    BY <1>1, <1>8, <1>9, <1>14, <2>1 DEF LastDelivered
<1>17. GrantsOpen(s)'
  BY <1>1, <1>2, <1>3, <1>6, <1>8, <1>9, <1>12, <1>14 DEF GatewayInv, GrantsOpen, Opened
<1>18. LifeKnown(s)'
  BY <1>1, <1>2, <1>5, <1>6, <1>12 DEF GatewayInv, LifeKnown
<1>19. ReportHolds(s)'
  BY <1>1, <1>2, <1>6, <1>12, <1>14 DEF GatewayInv, GrantsOpen, ReportHolds
<1>20. pool'.state \in Closed => Shut(s)'
  <2> SUFFICES ASSUME pool.state \in Closed PROVE Shut(s)'
    BY <1>1
  <2>1. ~Accepting(s) /\ Shut(s)
    BY <1>2, <1>3 DEF Closed, GatewayInv
  <2>2. view[s].delivered = 0 => view'[s].delivered = 0
    BY <1>6, <2>1 DEF joins
  <2>. QED
    BY <1>1, <1>6, <1>8, <1>9, <2>1, <2>2 DEF Shut
<1>21. GatewayInv(s)'
  BY <1>15, <1>16, <1>17, <1>18, <1>19, <1>20 DEF GatewayInv
<1>22. fences =< fences'
  BY <1>1 DEF IInv, Types
<1>. QED
  BY <1>1, <1>5, <1>6, <1>8, <1>10, <1>11, <1>21, <1>22, GatewayStepKeeps

\* A report is recorded only as the answer to the last snapshot, so it speaks
\* of the generation that was delivered with it.
LEMMA TrafficReportStep ==
  ASSUME IInv, NEW s \in Sessions, TrafficReport(s)
  PROVE  IInv'
<1>1. /\ post[s].sequence = session[s].sequence /\ ~session[s].closed
      /\ view' = IF view[s].delivered = 0 THEN view
                 ELSE [view EXCEPT ![s].acked = view[s].delivered, ![s].retired = post[s].closed,
                                   ![s].active = post[s].active]
      /\ session' = [session EXCEPT ![s].closed = post[s].closed, ![s].reported = TRUE]
      /\ UNCHANGED <<setup, pool, cluster, fences, runtime, gate, reply, post, req, obs, proof, scrape>>
  BY DEF TrafficReport, AnswersLast, wire, agent
<1>2. /\ session \in [Sessions -> Session] /\ view \in [Sessions -> View]
      /\ reply[s] \in Reply /\ gate[s] \in Gate /\ post[s] \in Post
      /\ pool.generation \in Nat /\ GatewayInv(s)
  BY DEF IInv, Types, Pool
<1>3. /\ session'[s].closed = post[s].closed /\ session'[s].fence = session[s].fence
      /\ session'[s].sequence = session[s].sequence
      /\ \A x \in Sessions \ {s} : session'[x] = session[x]
      /\ session' \in [Sessions -> Session]
  BY <1>1, <1>2 DEF Session, Post
<1>4. /\ view[s].delivered = 0 => view'[s] = view[s]
      /\ view[s].delivered # 0 => /\ view'[s].acked = view[s].delivered
                                  /\ view'[s].retired = post[s].closed
                                  /\ view'[s].active = post[s].active
      /\ view'[s].delivered = view[s].delivered
      /\ \A x \in Sessions \ {s} : view'[x] = view[x]
      /\ view' \in [Sessions -> View]
  <2>1. CASE view[s].delivered = 0
    BY <1>1, <1>2, <2>1
  <2>2. CASE view[s].delivered # 0
    <3>1. view' = [view EXCEPT ![s].acked = view[s].delivered, ![s].retired = post[s].closed,
                               ![s].active = post[s].active]
      BY <1>1, <2>2
    <3>2. view[s].delivered \in Nat /\ post[s].closed \in BOOLEAN /\ post[s].active \in Int
      BY <1>2 DEF View, Post
    <3>. QED
      BY <1>2, <2>2, <3>1, <3>2 DEF View
  <2>. QED
    BY <2>1, <2>2
<1>5. Types'
  BY <1>1, <1>3, <1>4 DEF IInv, Types
<1>6. /\ ~view[s].retired /\ session[s].fence = 0 /\ ~(view[s].active < 0)
      /\ post[s].active \in Nat /\ ~(view'[s].active < 0)
      /\ gate[s].sequence = session[s].sequence /\ post[s].sequence = gate[s].sequence
  <2>1. ~view[s].retired /\ session[s].fence = 0 /\ ~(view[s].active < 0)
    BY <1>1, <1>2 DEF GatewayInv, LifeKnown
  <2>2. post[s].active \in Nat
    BY <1>2 DEF Post
  <2>3. ~(view'[s].active < 0)
    BY <1>4, <2>1, <2>2
  <2>4. gate[s].sequence = session[s].sequence
    BY <1>1, <1>2 DEF GatewayInv, Ordered, Gate, Post, Session
  <2>. QED
    BY <1>1, <2>1, <2>2, <2>3, <2>4
<1>7. EvidenceInv'
  BY <1>1, <1>3, <1>4, <1>6, EvidenceStays
<1>8. Free(s)' = Free(s) /\ Gone(s)' = Gone(s)
  BY <1>1 DEF Free, Gone
<1>9. view[s].delivered # 0 => gate[s].generation = view[s].delivered
  BY <1>2, <1>6 DEF GatewayInv, LastDelivered
<1>10. Ordered(s)' /\ LastDelivered(s)'
  BY <1>1, <1>2, <1>3, <1>4, <1>9 DEF GatewayInv, Ordered, LastDelivered, View, Gate
<1>11. GrantsOpen(s)'
  BY <1>1, <1>2, <1>4, <1>8 DEF GatewayInv, GrantsOpen, Opened
<1>12. LifeKnown(s)'
  BY <1>1, <1>2, <1>3, <1>4, <1>6, <1>8 DEF GatewayInv, LifeKnown
<1>13. ReportHolds(s)'
  <2>1. post[s].closed => Free(s)
    BY <1>2 DEF GatewayInv, LifeKnown
  <2>2. Free(s) => Gone(s)
    BY DEF Free, Gone
  <2>3. ASSUME view[s].delivered # 0, post[s].active = 0, pool.state # "active",
               view[s].delivered = pool.generation
        PROVE  Free(s)
    <3>1. ~gate[s].accepting
      BY <1>2, <1>9, <2>3 DEF GatewayInv, GrantsOpen, Opened
    <3>. QED
      BY <1>2, <1>6, <2>3, <3>1 DEF GatewayInv, ReportHolds
  <2>4. view[s].delivered = 0 => view'[s].delivered = 0 /\ ~view'[s].retired
    BY <1>4, <1>6
  <2>. QED
    BY <1>1, <1>2, <1>4, <1>8, <2>1, <2>2, <2>3, <2>4 DEF GatewayInv, ReportHolds
<1>14. pool'.state \in Closed => Shut(s)'
  BY <1>1, <1>2, <1>4, <1>6 DEF GatewayInv, Shut
<1>15. GatewayInv(s)'
  BY <1>10, <1>11, <1>12, <1>13, <1>14 DEF GatewayInv
<1>16. fences =< fences'
  BY <1>1 DEF IInv, Types
<1>. QED
  BY <1>1, <1>3, <1>4, <1>5, <1>7, <1>15, <1>16, GatewayStepKeeps

\* finish closes the gate of a gateway that carries nothing.
LEMMA FinishStep ==
  ASSUME IInv, NEW s \in Sessions, Finish(s)
  PROVE  IInv'
<1>1. /\ gate[s].up /\ InFlight(s) = 0
      /\ gate' = [gate EXCEPT ![s].closed = TRUE]
      /\ UNCHANGED <<setup, pool, cluster, session, view, fences, runtime, reply, post, req,
                     obs, proof, scrape>>
  BY DEF Finish, control, wire, agent
<1>2. GatewayInv(s) /\ gate \in [Sessions -> Gate]
  BY DEF IInv, Types
<1>3. /\ gate'[s].sequence = gate[s].sequence /\ gate'[s].generation = gate[s].generation
      /\ gate'[s].accepting = gate[s].accepting /\ gate'[s].up = gate[s].up
      /\ gate'[s].closed
      /\ \A x \in Sessions \ {s} : gate'[x] = gate[x]
      /\ gate' \in [Sessions -> Gate]
  BY <1>1, <1>2 DEF Gate
<1>4. Types'
  BY <1>1, <1>3 DEF IInv, Types
<1>5. EvidenceInv'
  BY <1>1, EvidenceStays
<1>6. Free(s)' = Free(s) /\ Gone(s)' = Gone(s) /\ Free(s)
  BY <1>1, <1>2, IdleIsFree DEF Free, Gone, IInv, GatewayInv
<1>7. Ordered(s)' /\ LastDelivered(s)'
  BY <1>1, <1>2, <1>3 DEF GatewayInv, Ordered, LastDelivered
<1>8. GrantsOpen(s)' /\ LifeKnown(s)'
  BY <1>1, <1>2, <1>3, <1>6 DEF GatewayInv, GrantsOpen, Opened, LifeKnown
<1>9. ReportHolds(s)'
  BY <1>1, <1>2, <1>6 DEF GatewayInv, ReportHolds
<1>10. pool'.state \in Closed => Shut(s)'
  BY <1>1, <1>2, <1>3 DEF GatewayInv, Shut
<1>11. GatewayInv(s)'
  BY <1>7, <1>8, <1>9, <1>10 DEF GatewayInv
<1>12. fences =< fences'
  BY <1>1 DEF IInv, Types
<1>. QED
  BY <1>1, <1>3, <1>4, <1>5, <1>11, <1>12, GatewayStepKeeps

\* A container is found terminated only when its process is gone.
LEMMA InspectPodStep ==
  ASSUME IInv, NEW s \in Sessions, InspectPod(s)
  PROVE  IInv'
<1>1. PICK found \in {"terminated", "bound", "unbound"} :
        /\ proof' = [proof EXCEPT ![s] = found]
        /\ found = "terminated" => session[s].bound
  BY DEF InspectPod
<1>2. /\ gate[s].up => ~session[s].bound
      /\ UNCHANGED <<setup, pool, cluster, session, view, fences, runtime, gate, reply, post, req,
                     obs, scrape>>
  BY DEF InspectPod, control, wire
<1>3. GatewayInv(s) /\ proof \in [Sessions -> {"none", "bound", "unbound", "terminated"}]
  BY DEF IInv, Types
<1>4. /\ proof'[s] = "terminated" => ~gate[s].up
      /\ \A x \in Sessions \ {s} : proof'[x] = proof[x]
      /\ proof' \in [Sessions -> {"none", "bound", "unbound", "terminated"}]
  BY <1>1, <1>2, <1>3
<1>5. Types'
  BY <1>2, <1>4 DEF IInv, Types
<1>6. EvidenceInv'
  BY <1>2, EvidenceStays
<1>7. Free(s)' = Free(s) /\ Gone(s)' = Gone(s)
  BY <1>2 DEF Free, Gone
<1>8. Ordered(s)' /\ LastDelivered(s)' /\ GrantsOpen(s)'
  BY <1>2, <1>3, <1>7 DEF GatewayInv, Ordered, LastDelivered, GrantsOpen, Opened
<1>9. LifeKnown(s)' /\ ReportHolds(s)'
  BY <1>2, <1>3, <1>4, <1>7 DEF GatewayInv, LifeKnown, ReportHolds
<1>10. pool'.state \in Closed => Shut(s)'
  BY <1>2, <1>3 DEF GatewayInv, Shut
<1>11. GatewayInv(s)'
  BY <1>8, <1>9, <1>10 DEF GatewayInv
<1>12. fences =< fences'
  BY <1>2 DEF IInv, Types
<1>. QED
  BY <1>2, <1>4, <1>5, <1>6, <1>11, <1>12, GatewayStepKeeps

\* gateway_proof retires a gateway under a fence newer than all evidence.
LEMMA GatewayProofStep ==
  ASSUME IInv, NEW s \in Sessions, GatewayProof(s)
  PROVE  IInv'
<1> DEFINE Ends == /\ proof[s] = "terminated" /\ ~session[s].closed
                   /\ fences' = fences + 1
                   /\ session' = [session EXCEPT ![s].closed = TRUE, ![s].fence = fences + 1]
                   /\ view' = IF view[s].delivered = 0 THEN view
                              ELSE [view EXCEPT ![s].retired = TRUE, ![s].active = -1]
           Stays == /\ \/ session' = [session EXCEPT ![s].bound = TRUE]
                       \/ session' = [session EXCEPT ![s].closed = TRUE]
                       \/ session' = session
                    /\ UNCHANGED <<view, fences>>
<1>1. /\ proof' = [proof EXCEPT ![s] = "none"]
      /\ UNCHANGED <<setup, pool, cluster, runtime, gate, reply, post, req, obs, scrape>>
  BY DEF GatewayProof, wire
<1>2. Ends \/ Stays
  <2>1. CASE proof[s] = "bound" /\ ~session[s].closed
    BY <2>1, Zenon DEF GatewayProof
  <2>2. CASE proof[s] = "terminated" /\ session[s].bound /\ ~session[s].closed
    BY <2>2, Zenon DEF GatewayProof
  <2>3. CASE proof[s] = "unbound" /\ ~session[s].bound /\ view[s].delivered = 0
    BY <2>3, Zenon DEF GatewayProof
  <2>4. CASE /\ ~(proof[s] = "bound" /\ ~session[s].closed)
             /\ ~(proof[s] = "terminated" /\ session[s].bound /\ ~session[s].closed)
             /\ ~(proof[s] = "unbound" /\ ~session[s].bound /\ view[s].delivered = 0)
    BY <2>4, Zenon DEF GatewayProof
  <2>. QED
    BY <2>1, <2>2, <2>3, <2>4, Zenon
<1>3. /\ session \in [Sessions -> Session] /\ view \in [Sessions -> View]
      /\ proof \in [Sessions -> {"none", "bound", "unbound", "terminated"}]
      /\ fences \in Nat /\ fences + 1 \in Nat /\ GatewayInv(s) /\ gate[s] \in Gate
  BY DEF IInv, Types
<1>4. /\ proof'[s] = "none"
      /\ \A x \in Sessions \ {s} : proof'[x] = proof[x]
      /\ proof' \in [Sessions -> {"none", "bound", "unbound", "terminated"}]
  BY <1>1, <1>3
<1>5. Free(s)' = Free(s) /\ Gone(s)' = Gone(s)
  BY <1>1 DEF Free, Gone
<1>6. CASE Stays
  <2>1. /\ session'[s].sequence = session[s].sequence /\ session'[s].fence = session[s].fence
        /\ session[s].closed => session'[s].closed
        /\ \A x \in Sessions \ {s} : session'[x] = session[x]
        /\ session' \in [Sessions -> Session]
    BY <1>3, <1>6 DEF Session
  <2>2. UNCHANGED <<view, fences>>
    BY <1>6
  <2>3. Types'
    BY <1>1, <1>4, <2>1, <2>2 DEF IInv, Types
  <2>4. EvidenceInv'
    BY <1>1, <2>1, <2>2, EvidenceStays
  <2>5. Ordered(s)' /\ LastDelivered(s)' /\ GrantsOpen(s)'
    BY <1>1, <1>3, <1>5, <2>1, <2>2 DEF GatewayInv, Ordered, LastDelivered, GrantsOpen, Opened
  <2>6. LifeKnown(s)' /\ ReportHolds(s)'
    BY <1>1, <1>3, <1>4, <1>5, <2>1, <2>2 DEF GatewayInv, LifeKnown, ReportHolds
  <2>7. pool'.state \in Closed => Shut(s)'
    BY <1>1, <1>3, <2>2 DEF GatewayInv, Shut
  <2>8. GatewayInv(s)' /\ fences =< fences'
    BY <1>3, <2>2, <2>5, <2>6, <2>7 DEF GatewayInv
  <2>. QED
    BY <1>1, <1>4, <2>1, <2>2, <2>3, <2>4, <2>8, GatewayStepKeeps
<1>7. CASE Ends
  <2>1. /\ session'[s].sequence = session[s].sequence /\ session'[s].fence = fences + 1
        /\ session'[s].closed
        /\ \A x \in Sessions \ {s} : session'[x] = session[x]
        /\ session' \in [Sessions -> Session]
    BY <1>3, <1>7 DEF Session
  <2>2. /\ view[s].delivered = 0 => view'[s] = view[s]
        /\ view[s].delivered # 0 => view'[s].retired /\ view'[s].active = -1
        /\ view'[s].delivered = view[s].delivered /\ view'[s].acked = view[s].acked
        /\ \A x \in Sessions \ {s} : view'[x] = view[x]
        /\ view' \in [Sessions -> View]
    <3>1. CASE view[s].delivered = 0
      BY <1>3, <1>7, <3>1
    <3>2. CASE view[s].delivered # 0
      <4>1. view' = [view EXCEPT ![s].retired = TRUE, ![s].active = -1] /\ -1 \in Int
        BY <1>7, <3>2
      <4>. QED
        BY <1>3, <3>2, <4>1 DEF View
    <3>. QED
      BY <3>1, <3>2
  <2>3. /\ fences' = fences + 1 /\ ~gate[s].up /\ session[s].fence = 0
        /\ ~(view[s].active < 0)
    BY <1>3, <1>7 DEF GatewayInv, LifeKnown
  <2>4. Types'
    BY <1>1, <1>3, <1>4, <2>1, <2>2, <2>3 DEF IInv, Types
  <2>5. EvidenceInv'
    <3>1. ASSUME NEW t \in Nat, t =< fences, Ended(t)
          PROVE  Ended(t)'
      <4> SUFFICES ASSUME NEW r \in Requests, NEW x \in Sessions,
                          req'[r].by = x, session'[x].fence \in 1 .. t
                   PROVE  req'[r].at \notin {"passed", "serving"}
        BY DEF Ended
      <4>1. x # s
        BY <1>3, <2>1, <3>1
      <4>. QED
        BY <1>1, <2>1, <3>1, <4>1 DEF Ended
    <3>2. /\ scrape.at \in Nat /\ scrape.at =< fences /\ obs.fence \in Nat /\ obs.fence =< fences
          /\ Protocol = 2 /\ scrape.idle => Ended(scrape.at)
          /\ Protocol = 2 /\ obs.idle => Ended(obs.fence)
      BY DEF IInv, Types, Obs, EvidenceInv
    <3>3. /\ (Protocol = 2 /\ scrape.idle => Ended(scrape.at))'
          /\ (Protocol = 2 /\ obs.idle => Ended(obs.fence))'
      <4>1. \A t : t = scrape.at => (Protocol = 2 /\ scrape.idle => Ended(t)')
        BY <3>1, <3>2
      <4>2. \A t : t = obs.fence => (Protocol = 2 /\ obs.idle => Ended(t)')
        BY <3>1, <3>2
      <4>. QED
        BY <1>1, <4>1, <4>2 DEF Ended
    <3>4. scrape'.at =< fences' /\ obs'.fence =< fences'
      BY <1>1, <1>3, <2>3, <3>2
    <3>5. (Unknown # {} => \E x \in Unknown : \A y \in Unknown : session[y].fence =< session[x].fence)'
      <4>1. CASE view[s].delivered = 0
        <5>1. Unknown' = Unknown /\ s \notin Unknown
          BY <2>2, <2>3, <4>1 DEF Unknown
        <5>2. \A x \in Unknown : session'[x] = session[x]
          BY <2>1, <5>1 DEF Unknown
        <5>. QED
          BY <5>1, <5>2 DEF IInv, EvidenceInv
      <4>2. CASE view[s].delivered # 0
        <5>1. s \in Unknown'
          BY <2>2, <4>2 DEF Unknown
        <5>2. \A y \in Sessions : session'[y].fence =< session'[s].fence
          BY <1>3, <2>1 DEF IInv, GatewayInv, LifeKnown, Session
        <5>. QED
          BY <5>1, <5>2 DEF Unknown
      <4>. QED
        BY <4>1, <4>2
    <3>. QED
      BY <3>3, <3>4, <3>5 DEF EvidenceInv
  <2>6. Ordered(s)' /\ LastDelivered(s)' /\ GrantsOpen(s)'
    BY <1>1, <1>3, <1>5, <2>1, <2>2 DEF GatewayInv, Ordered, LastDelivered, GrantsOpen, Opened
  <2>7. LifeKnown(s)'
    BY <1>1, <1>3, <1>4, <1>5, <2>1, <2>2, <2>3 DEF GatewayInv, LifeKnown, GrantsOpen
  <2>8. ReportHolds(s)'
    <3>1. view[s].delivered = 0 => ~view'[s].retired /\ view'[s].delivered = 0
      BY <1>3, <2>2 DEF GatewayInv, GrantsOpen
    <3>. QED
      BY <1>1, <1>3, <1>5, <2>2, <3>1 DEF GatewayInv, ReportHolds
  <2>9. Shut(s)'
    BY <2>2 DEF Shut
  <2>10. GatewayInv(s)' /\ fences =< fences'
    BY <1>3, <2>3, <2>6, <2>7, <2>8, <2>9 DEF GatewayInv
  <2>. QED
    BY <1>1, <1>4, <2>1, <2>2, <2>4, <2>5, <2>10, GatewayStepKeeps
<1>. QED
  BY <1>2, <1>6, <1>7

-----------------------------------------------------------------------------
(* The requests' steps.                                                    *)

rest == <<setup, pool, cluster, runtime, session, view, reply, post, obs, proof, scrape, fences>>

\* What a step of the requests has to keep.
LEMMA RequestsKeep ==
  ASSUME IInv, UNCHANGED <<rest, gate>>, req' \in [Requests -> Req], OwnersKnown', ClosedInv',
         \A s \in Sessions :
            /\ GrantsOpen(s)' /\ LifeKnown(s)' /\ ReportHolds(s)',
         Protocol = 2 => \A t \in Nat : Ended(t) => Ended(t)'
  PROVE  IInv'
<1>1. UNCHANGED <<setup, pool, cluster, runtime, session, view, gate, reply, post, obs, proof,
                  scrape, fences>>
  BY DEF rest
<1>2. Types' /\ PoolInv'
  BY <1>1, PoolStays DEF IInv, Types
<1>3. EvidenceInv'
  <2>1. scrape.at \in Nat /\ obs.fence \in Nat /\ EvidenceInv
    BY DEF IInv, Types, Obs
  <2>2. \A t \in Nat : t = scrape.at => (Protocol = 2 /\ scrape.idle => Ended(t)')
    BY <2>1 DEF EvidenceInv
  <2>3. \A t \in Nat : t = obs.fence => (Protocol = 2 /\ obs.idle => Ended(t)')
    BY <2>1 DEF EvidenceInv
  <2>4. /\ (Protocol = 2 /\ scrape.idle => Ended(scrape.at))'
        /\ (Protocol = 2 /\ obs.idle => Ended(obs.fence))'
    BY <1>1, <2>1, <2>2, <2>3 DEF Ended
  <2>5. Unknown' = Unknown
    BY <1>1 DEF Unknown
  <2>. QED
    BY <1>1, <2>1, <2>4, <2>5 DEF EvidenceInv
<1>4. ASSUME NEW s \in Sessions PROVE GatewayInv(s)'
  <2>1. GatewayInv(s)
    BY DEF IInv
  <2>2. Ordered(s)' /\ LastDelivered(s)'
    BY <1>1, <2>1 DEF GatewayInv, Ordered, LastDelivered
  <2>3. pool'.state \in Closed => Shut(s)'
    BY <1>1, <2>1 DEF GatewayInv, Shut
  <2>. QED
    BY <2>2, <2>3 DEF GatewayInv
<1>. QED
  BY <1>2, <1>3, <1>4 DEF IInv

\* A request moves on or ends, with the gateway it entered by.  Only a live
\* session passes the first check, and only an open pool serves.
LEMMA RequestMoves ==
  ASSUME IInv, UNCHANGED <<rest, gate>>, NEW r \in Requests, NEW q \in Req,
         req' = [req EXCEPT ![r] = q], q.by = req[r].by, q.owner \in {req[r].owner, "none"},
         q.at \in {"passed", "serving"} =>
            \/ req[r].at \in {"passed", "serving"}
            \/ Protocol = 1
            \/ ~session[req[r].by].closed,
         q.at = "serving" =>
            \/ req[r].at = "serving"
            \/ Protocol = 1
            \/ pool.state = "active"
  PROVE  IInv'
<1>1. UNCHANGED <<pool, session, view, gate, reply, post, proof, fences>>
  BY DEF rest
<1>2. req \in [Requests -> Req] /\ req'[r] = q /\ \A x \in Requests \ {r} : req'[x] = req[x]
  BY DEF IInv, Types
<1>3. req' \in [Requests -> Req]
  BY <1>2
<1>4. OwnersKnown'
  BY <1>2 DEF IInv, OwnersKnown
<1>5. ClosedInv'
  <2> SUFFICES ASSUME pool.state \in Closed, NEW x \in Requests
               PROVE  /\ req'[x].owner # "gateway"
                      /\ req'[x].owner = "orphan" => Protocol = 2 /\ req'[x].at # "serving"
    BY <1>1 DEF ClosedInv
  <2>1. /\ req[x].owner # "gateway"
        /\ req[x].owner = "orphan" => Protocol = 2 /\ req[x].at # "serving"
    BY DEF IInv, ClosedInv
  <2>2. CASE x = r
    BY <1>2, <2>1, <2>2 DEF Closed
  <2>3. CASE x # r
    BY <1>2, <2>1, <2>3
  <2>. QED
    BY <2>2, <2>3
<1>6. ASSUME NEW s \in Sessions
      PROVE  GrantsOpen(s)' /\ LifeKnown(s)' /\ ReportHolds(s)'
  <2>1. GatewayInv(s)
    BY DEF IInv
  <2>2. Free(s) => Free(s)'
    BY <1>2 DEF Free
  <2>3. view[s].retired /\ Gone(s) => Gone(s)'
    <3> SUFFICES ASSUME view[s].retired, Gone(s), NEW x \in Requests, req'[x].by = s
                 PROVE  /\ req'[x].owner # "gateway"
                        /\ req'[x].owner = "orphan" => Protocol = 2 /\ req'[x].at \notin {"passed", "serving"}
      BY DEF Gone
    <3>1. session[s].closed
      BY <2>1 DEF GatewayInv, LifeKnown
    <3>2. req[x].by = s
      BY <1>2
    <3>3. CASE x = r
      BY <1>2, <3>1, <3>2, <3>3 DEF Gone
    <3>4. CASE x # r
      BY <1>2, <3>2, <3>4 DEF Gone
    <3>. QED
      BY <3>3, <3>4
  <2>4. GrantsOpen(s)'
    BY <1>1, <2>1, <2>2 DEF GatewayInv, GrantsOpen, Opened
  <2>5. LifeKnown(s)'
    BY <1>1, <1>2, <2>1, <2>2 DEF GatewayInv, LifeKnown
  <2>6. ReportHolds(s)'
    BY <1>1, <2>1, <2>2, <2>3 DEF GatewayInv, ReportHolds
  <2>. QED
    BY <2>4, <2>5, <2>6
<1>7. ASSUME Protocol = 2, NEW t \in Nat, Ended(t)
      PROVE  Ended(t)'
  <2> SUFFICES ASSUME NEW x \in Requests, NEW s \in Sessions,
                      req'[x].by = s, session[s].fence \in 1 .. t
               PROVE  req'[x].at \notin {"passed", "serving"}
    BY <1>1 DEF Ended
  <2>1. session[s].closed
    BY DEF IInv, GatewayInv, LifeKnown
  <2>2. req[x].by = s /\ req[x].at \notin {"passed", "serving"}
    BY <1>2, <1>7 DEF Ended
  <2>3. CASE x = r
    BY <1>2, <1>7, <2>1, <2>2, <2>3
  <2>4. CASE x # r
    BY <1>2, <2>2, <2>4
  <2>. QED
    BY <2>3, <2>4
<1>. QED
  BY <1>3, <1>4, <1>5, <1>6, <1>7, RequestsKeep

\* The steps of a request behind the gate.
LEMMA RequestStep ==
  ASSUME IInv, NEW r \in Requests,
         Forward(r) \/ Arrive(r) \/ CheckSession(r) \/ CheckPool(r) \/ Leave(r) \/ Drop(r)
  PROVE  IInv'
<1>1. UNCHANGED <<rest, gate>>
  BY DEF Forward, Arrive, CheckSession, CheckPool, Leave, Drop, control, wire, agent, rest
<1>2. req \in [Requests -> Req] /\ req[r] \in Req /\ Protocol \in {1, 2}
  BY SetupFacts DEF IInv, Types
<1>3. CASE Forward(r)
  <2> DEFINE g == gate[req[r].by]
             grant == IF g.accepting THEN g.generation ELSE 0
             q == [req[r] EXCEPT !.at = "sent", !.grant = grant]
  <2>1. req[r].by \in Sessions
    BY <1>3 DEF Forward, IInv, OwnersKnown
  <2>2. grant \in Nat
    BY <2>1 DEF IInv, Types, Gate
  <2>3. req' = [req EXCEPT ![r] = q]
    BY <1>2, <1>3 DEF Forward
  <2> HIDE DEF grant
  <2>4. q \in Req /\ q.by = req[r].by /\ q.owner = req[r].owner /\ q.at = "sent"
    BY <1>2, <2>2 DEF Req
  <2> HIDE DEF q
  <2>. QED
    BY <1>1, <2>3, <2>4, RequestMoves
<1>4. ASSUME NEW at \in {"arrived", "passed", "serving", "over"},
             req' = [req EXCEPT ![r].at = at],
             at = "serving" => Protocol = 1 \/ (req[r].at = "passed" /\ pool.state = "active"),
             at = "passed" => ~session[req[r].by].closed
      PROVE  IInv'
  <2> DEFINE q == [req[r] EXCEPT !.at = at]
  <2>1. req' = [req EXCEPT ![r] = q]
    BY <1>2, <1>4
  <2>2. q \in Req /\ q.by = req[r].by /\ q.owner = req[r].owner /\ q.at = at
    BY <1>2 DEF Req
  <2> HIDE DEF q
  <2>. QED
    BY <1>1, <1>4, <2>1, <2>2, RequestMoves
<1>5. CASE Arrive(r)
  <2>1. CASE Protocol = 2
    BY <1>4, <1>5, <2>1 DEF Arrive
  <2>2. CASE Protocol = 1
    <3>1. req' = [req EXCEPT ![r].at = "serving"]
      BY <1>5, <2>2 DEF Arrive
    <3>. QED
      BY <1>4, <2>2, <3>1
  <2>. QED
    BY <1>2, <2>1, <2>2
<1>6. CASE CheckSession(r)
  BY <1>4, <1>6 DEF CheckSession
<1>7. CASE CheckPool(r)
  BY <1>4, <1>7 DEF CheckPool
<1>8. CASE Leave(r)
  BY <1>4, <1>8 DEF Leave
<1>9. CASE Drop(r)
  <2> DEFINE at == IF req[r].at = "entered" THEN "over" ELSE req[r].at
             q == [req[r] EXCEPT !.owner = "none", !.at = at]
  <2>1. req' = [req EXCEPT ![r] = q]
    BY <1>2, <1>9 DEF Drop
  <2>2. /\ at \in {"new", "entered", "sent", "arrived", "passed", "serving", "over"}
        /\ at \in {"passed", "serving"} => at = req[r].at
    BY <1>2 DEF Req
  <2> HIDE DEF at
  <2>3. q \in Req /\ q.by = req[r].by /\ q.owner = "none" /\ q.at = at
    BY <1>2, <2>2 DEF Req
  <2> HIDE DEF q
  <2>. QED
    BY <1>1, <2>1, <2>2, <2>3, RequestMoves
<1>. QED
  BY <1>3, <1>5, <1>6, <1>7, <1>8, <1>9

\* A request enters by an open gate only, and an open gate belongs to a
\* generation nobody has counted as drained.
LEMMA EnterStep ==
  ASSUME IInv, NEW r \in Requests, NEW s \in Sessions, Enter(r, s)
  PROVE  IInv'
<1> DEFINE q == [at |-> "entered", by |-> s, grant |-> 0, owner |-> "gateway"]
<1>1. UNCHANGED <<rest, gate>>
  BY DEF Enter, control, wire, agent, rest
<1>2. UNCHANGED <<pool, session, view, gate, reply, post, proof, fences>>
  BY <1>1 DEF rest
<1>3. gate[s].up /\ ~gate[s].closed /\ gate[s].accepting /\ req' = [req EXCEPT ![r] = q]
  BY DEF Enter
<1>4. q \in Req /\ q.at = "entered" /\ q.by = s /\ q.owner = "gateway"
  BY DEF Req
<1> HIDE DEF q
<1>5. req \in [Requests -> Req] /\ req'[r] = q /\ \A x \in Requests \ {r} : req'[x] = req[x]
  BY <1>3 DEF IInv, Types
<1>6. req' \in [Requests -> Req]
  BY <1>3, <1>4, <1>5
<1>7. GatewayInv(s) /\ gate[s] \in Gate /\ view[s] \in View /\ pool.generation \in Nat
  BY DEF IInv, Types, Pool
<1>8. /\ view[s].delivered # 0 /\ ~view[s].retired
      /\ ~(pool.state # "active" /\ view[s].acked = pool.generation)
      /\ pool.state \notin Closed
  <2>1. view[s].delivered # 0 /\ ~view[s].retired
    BY <1>3, <1>7 DEF GatewayInv, GrantsOpen, LifeKnown
  <2>2. pool.state \notin Closed
    BY <1>3, <1>7, <2>1 DEF GatewayInv, Shut
  <2>3. ASSUME pool.state # "active", view[s].acked = pool.generation PROVE FALSE
    <3>1. gate[s].generation = pool.generation
      BY <1>7, <2>3 DEF GatewayInv, Ordered, Gate, View
    <3>. QED
      BY <1>3, <1>7, <2>3, <3>1 DEF GatewayInv, GrantsOpen, Opened
  <2>. QED
    BY <2>1, <2>2, <2>3
<1>9. OwnersKnown' /\ ClosedInv'
  BY <1>2, <1>4, <1>5, <1>8 DEF IInv, OwnersKnown, ClosedInv
<1>10. ASSUME NEW x \in Sessions
       PROVE  GrantsOpen(x)' /\ LifeKnown(x)' /\ ReportHolds(x)'
  <2>1. GatewayInv(x)
    BY DEF IInv
  <2>2. CASE x = s
    <3>1. GrantsOpen(x)'
      BY <1>2, <1>8, <2>1, <2>2 DEF GatewayInv, GrantsOpen, Opened
    <3>2. LifeKnown(x)'
      BY <1>2, <1>3, <1>4, <1>5, <2>1, <2>2 DEF GatewayInv, LifeKnown
    <3>3. ReportHolds(x)'
      BY <1>2, <1>3, <1>8, <2>1, <2>2 DEF GatewayInv, ReportHolds
    <3>. QED
      BY <3>1, <3>2, <3>3
  <2>3. CASE x # s
    <3>1. \A y \in Requests : req'[y].by = x => req'[y] = req[y]
      BY <1>4, <1>5, <2>3
    <3>2. (Free(x) => Free(x)') /\ (Gone(x) => Gone(x)')
      BY <3>1 DEF Free, Gone
    <3>3. GrantsOpen(x)'
      BY <1>2, <2>1, <3>2 DEF GatewayInv, GrantsOpen, Opened
    <3>4. LifeKnown(x)'
      BY <1>2, <2>1, <3>1, <3>2 DEF GatewayInv, LifeKnown
    <3>5. ReportHolds(x)'
      BY <1>2, <2>1, <3>2 DEF GatewayInv, ReportHolds
    <3>. QED
      BY <3>3, <3>4, <3>5
  <2>. QED
    BY <2>2, <2>3
<1>11. ASSUME NEW t \in Nat, Ended(t) PROVE Ended(t)'
  BY <1>2, <1>4, <1>5, <1>11 DEF Ended
<1>. QED
  BY <1>1, <1>6, <1>9, <1>10, <1>11, RequestsKeep

\* A gateway dies: what it carried ends or lives on at the entry.
LEMMA CrashStep ==
  ASSUME IInv, NEW s \in Sessions, Crash(s)
  PROVE  IInv'
<1>1. /\ gate[s].up /\ gate' = [gate EXCEPT ![s].up = FALSE]
      /\ UNCHANGED <<setup, pool, cluster, session, view, fences, runtime, reply, post,
                     obs, proof, scrape>>
  BY DEF Crash, control, wire, agent
<1>2. req \in [Requests -> Req] /\ gate \in [Sessions -> Gate]
  BY DEF IInv, Types
<1>3. /\ gate'[s].sequence = gate[s].sequence /\ gate'[s].generation = gate[s].generation
      /\ gate'[s].accepting = gate[s].accepting /\ ~gate'[s].up
      /\ gate'[s].closed = gate[s].closed
      /\ \A x \in Sessions \ {s} : gate'[x] = gate[x]
      /\ gate' \in [Sessions -> Gate]
  BY <1>1, <1>2 DEF Gate
<1>4. ASSUME NEW r \in Requests
      PROVE  /\ req'[r] \in Req /\ req'[r].by = req[r].by
             /\ req[r].by # s \/ req[r].owner # "gateway" => req'[r] = req[r]
             /\ req[r].by = s => req'[r].owner # "gateway"
             /\ req'[r].at \in {req[r].at, "over"}
             /\ req'[r].owner = "orphan" => req[r].owner \in {"gateway", "orphan"}
             /\ req'[r].owner # "none" => req[r].owner # "none"
  <2>1. req[r] \in Req
    BY <1>2
  <2>2. CASE req[r].by # s \/ req[r].owner # "gateway"
    BY <2>1, <2>2 DEF Crash
  <2>3. CASE req[r].by = s /\ req[r].owner = "gateway" /\ req[r].at = "entered"
    <3>1. req'[r] = [req[r] EXCEPT !.at = "over", !.owner = "none"]
      BY <2>3 DEF Crash
    <3>. QED
      BY <2>1, <2>3, <3>1 DEF Req
  <2>4. CASE req[r].by = s /\ req[r].owner = "gateway" /\ req[r].at # "entered"
    <3>1. req'[r] = [req[r] EXCEPT !.owner = "orphan"]
      BY <2>4 DEF Crash
    <3>. QED
      BY <2>1, <2>4, <3>1 DEF Req
  <2>. QED
    BY <2>2, <2>3, <2>4
<1>5. req' \in [Requests -> Req]
  <2>1. req' = [r \in Requests |-> req'[r]]
    BY DEF Crash
  <2>. QED
    BY <1>4, <2>1
<1>6. Types' /\ PoolInv'
  BY <1>1, <1>3, <1>5, PoolStays DEF IInv, Types
<1>7. OwnersKnown'
  BY <1>4 DEF IInv, OwnersKnown
<1>8. ClosedInv'
  <2>1. ASSUME pool.state \in Closed, NEW r \in Requests PROVE req'[r] = req[r]
    BY <1>4, <2>1 DEF IInv, ClosedInv
  <2>. QED
    BY <1>1, <2>1 DEF IInv, ClosedInv
<1>9. EvidenceInv'
  <2>1. ASSUME NEW t, Ended(t) PROVE Ended(t)'
    <3> SUFFICES ASSUME NEW r \in Requests, NEW x \in Sessions,
                        req'[r].by = x, session[x].fence \in 1 .. t
                 PROVE  req'[r].at \notin {"passed", "serving"}
      BY <1>1 DEF Ended
    <3>1. req[r].at \notin {"passed", "serving"}
      BY <1>4, <2>1 DEF Ended
    <3>. QED
      BY <1>4, <3>1
  <2>2. EvidenceInv
    BY DEF IInv
  <2>3. \A t : t = scrape.at => (Protocol = 2 /\ scrape.idle => Ended(t)')
    BY <2>1, <2>2 DEF EvidenceInv
  <2>4. \A t : t = obs.fence => (Protocol = 2 /\ obs.idle => Ended(t)')
    BY <2>1, <2>2 DEF EvidenceInv
  <2>5. /\ (Protocol = 2 /\ scrape.idle => Ended(scrape.at))'
        /\ (Protocol = 2 /\ obs.idle => Ended(obs.fence))'
    BY <1>1, <2>3, <2>4 DEF Ended
  <2>6. Unknown' = Unknown
    BY <1>1 DEF Unknown
  <2>. QED
    BY <1>1, <2>2, <2>5, <2>6 DEF EvidenceInv
<1>10. ASSUME NEW x \in Sessions PROVE GatewayInv(x)'
  <2>1. GatewayInv(x)
    BY DEF IInv
  <2>2. /\ gate'[x].sequence = gate[x].sequence /\ gate'[x].generation = gate[x].generation
        /\ gate'[x].accepting = gate[x].accepting /\ gate'[x].closed = gate[x].closed
        /\ gate'[x].up => gate[x].up /\ x # s
    BY <1>3
  <2>3. Ordered(x)' /\ LastDelivered(x)'
    BY <1>1, <2>1, <2>2 DEF GatewayInv, Ordered, LastDelivered
  <2>4. Free(x) => Free(x)'
    <3> SUFFICES ASSUME Free(x), NEW r \in Requests, req'[r].by = x
                 PROVE  req'[r].owner = "none"
      BY DEF Free
    <3>1. req[r].owner = "none"
      BY <1>4 DEF Free
    <3>. QED
      BY <1>4, <3>1
  <2>5. Gone(x) => Gone(x)'
    <3> SUFFICES ASSUME Gone(x), NEW r \in Requests, req'[r].by = x
                 PROVE  req'[r] = req[r]
      BY <1>4 DEF Gone
    <3>. QED
      BY <1>4 DEF Gone
  <2>6. GrantsOpen(x)'
    BY <1>1, <2>1, <2>2, <2>4 DEF GatewayInv, GrantsOpen, Opened
  <2>7. LifeKnown(x)'
    <3>1. ASSUME NEW r \in Requests, req'[r].by = x
          PROVE  /\ req'[r].owner = "gateway" => gate'[x].up
                 /\ req'[r].owner = "orphan" => ~gate'[x].up
      <4>1. CASE x = s
        BY <1>3, <1>4, <3>1, <4>1
      <4>2. CASE x # s
        <5>1. req'[r] = req[r] /\ gate'[x] = gate[x] /\ req[r].by = x
          BY <1>3, <1>4, <3>1, <4>2
        <5>. QED
          BY <2>1, <5>1 DEF GatewayInv, LifeKnown
      <4>. QED
        BY <4>1, <4>2
    <3>2. ~gate[x].up => ~gate'[x].up
      BY <2>2
    <3>. QED
      BY <1>1, <2>1, <2>2, <2>4, <3>1, <3>2 DEF GatewayInv, LifeKnown
  <2>8. ReportHolds(x)'
    BY <1>1, <2>1, <2>2, <2>4, <2>5 DEF GatewayInv, ReportHolds
  <2>9. pool'.state \in Closed => Shut(x)'
    BY <1>1, <2>1, <2>2 DEF GatewayInv, Shut
  <2>. QED
    BY <2>3, <2>6, <2>7, <2>8, <2>9 DEF GatewayInv
<1>. QED
  BY <1>6, <1>7, <1>8, <1>9, <1>10 DEF IInv

\* An idle sample covers every fence set before it.
LEMMA ScrapeStep ==
  ASSUME IInv, Scrape
  PROVE  IInv'
<1>1. /\ UNCHANGED <<setup, pool, cluster, runtime, session, view, gate, reply, post, req, obs,
                     proof, fences>>
      /\ scrape' = [idle |-> \A r \in Requests :
                               req[r].at \notin {"arrived", "passed", "serving"},
                    at |-> fences]
  BY DEF Scrape, control, wire
<1>2. /\ scrape'.at = fences /\ scrape' \in [idle : BOOLEAN, at : Nat]
      /\ scrape'.idle => \A r \in Requests : req[r].at \notin {"arrived", "passed", "serving"}
  <2> DEFINE idle == \A r \in Requests : req[r].at \notin {"arrived", "passed", "serving"}
  <2>1. idle \in BOOLEAN /\ fences \in Nat
    BY DEF IInv, Types
  <2>2. scrape' = [idle |-> idle, at |-> fences]
    BY <1>1
  <2> HIDE DEF idle
  <2>3. scrape'.at = fences /\ scrape' \in [idle : BOOLEAN, at : Nat] /\ scrape'.idle = idle
    BY <2>1, <2>2
  <2>. QED
    BY <2>3 DEF idle
<1>3. Types' /\ PoolInv'
  BY <1>1, <1>2, PoolStays DEF IInv, Types
<1>4. OwnersKnown' /\ ClosedInv'
  BY <1>1 DEF IInv, OwnersKnown, ClosedInv
<1>5. EvidenceInv'
  <2>1. scrape'.idle => Ended(scrape.at)'
    BY <1>1, <1>2 DEF Ended
  <2>2. Ended(obs.fence)' = Ended(obs.fence) /\ Unknown' = Unknown
    BY <1>1 DEF Ended, Unknown
  <2>. QED
    BY <1>1, <1>2, <2>1, <2>2 DEF IInv, EvidenceInv, Types
<1>6. ASSUME NEW x \in Sessions PROVE GatewayInv(x)'
  <2>1. GatewayInv(x)
    BY DEF IInv
  <2>. QED
    BY <1>1, <2>1 DEF GatewayInv, Ordered, LastDelivered, GrantsOpen, Opened, LifeKnown,
                      ReportHolds, Free, Gone, Shut
<1>. QED
  BY <1>3, <1>4, <1>5, <1>6 DEF IInv

-----------------------------------------------------------------------------
(* The inductive invariant.                                                *)

\* Nothing has happened yet.
LEMMA InitIInv == Init => IInv
<1> SUFFICES ASSUME Init PROVE IInv
  OBVIOUS
<1>1. PICK n \in Has.replicas :
         /\ pool = [state |-> "none", generation |-> 0, version |-> 0,
                    replicas |-> n, ready |-> FALSE, uid |-> FALSE,
                    op |-> Idle, nonce |-> FALSE, fence |-> 0]
         /\ cluster = [desired |-> 1, acknowledged |-> 1, asks |-> n, resized |-> FALSE]
         /\ \E pods \in {0, n} :
              runtime = [applied |-> 1, version |-> 1, replicas |-> n, copy |-> n,
                         spec |-> pods, observed |-> TRUE, running |-> pods]
  BY DEF Init
<1>2. n \in Nat /\ setup \in DOMAIN Setups
  BY TrafficAssumption DEF Init, Has
<1>3. pool \in Pool
  BY <1>1, <1>2, IdleType DEF Pool
<1>4. /\ cluster \in Cluster /\ runtime \in Runtime
      /\ cluster.asks = n /\ runtime.replicas = n /\ Steady(n)
  BY <1>1, <1>2 DEF Cluster, Runtime, Steady
<1>5. /\ session \in [Sessions -> Session] /\ view \in [Sessions -> View]
      /\ gate \in [Sessions -> Gate] /\ reply \in [Sessions -> Reply]
      /\ post \in [Sessions -> Post]
  BY DEF Init, Session, View, Gate, Reply, Post
<1>6. req \in [Requests -> Req] /\ obs \in Obs /\ scrape \in [idle : BOOLEAN, at : Nat]
  BY NoObsType DEF Init, Req
<1>7. /\ proof \in [Sessions -> {"none", "bound", "unbound", "terminated"}] /\ fences \in Nat
  BY DEF Init
<1>8. Types
  BY <1>2, <1>3, <1>4, <1>5, <1>6, <1>7 DEF Types
<1>9. /\ pool.state = "none" /\ pool.op = Idle /\ pool.generation = 0 /\ ~pool.ready /\ ~pool.nonce
      /\ pool.replicas = n
  BY <1>1
<1>10. PoolInv
  BY <1>2, <1>4, <1>9, IdleType DEF PoolInv, RowsInv, PodsInv, OperationOwnsPool, Approved
<1>11. \A r \in Requests : req[r].at = "new" /\ req[r].owner = "none"
  BY DEF Init
<1>12. OwnersKnown /\ ClosedInv
  BY <1>9, <1>11 DEF OwnersKnown, ClosedInv
<1>13. EvidenceInv
  <2>1. Unknown = {}
    BY DEF Init, Unknown
  <2>2. ~scrape.idle /\ ~obs.idle /\ scrape.at = 0 /\ obs.fence = 0 /\ fences = 0
    BY NoObsType DEF Init
  <2>. QED
    BY <2>1, <2>2 DEF EvidenceInv
<1>14. ASSUME NEW s \in Sessions PROVE GatewayInv(s)
  <2>1. /\ session[s].sequence = 0 /\ ~session[s].closed /\ session[s].fence = 0
        /\ view[s].delivered = 0 /\ view[s].acked = 0 /\ view[s].active = 0 /\ ~view[s].retired
        /\ gate[s].up /\ ~gate[s].closed /\ gate[s].sequence = 0 /\ gate[s].generation = 0
        /\ ~gate[s].accepting /\ reply[s].sequence = 0 /\ reply[s].generation = 0
        /\ ~reply[s].accepting /\ post[s].sequence = 0 /\ ~post[s].closed
        /\ proof[s] = "none" /\ fences = 0
    BY DEF Init
  <2>2. Free(s) /\ Gone(s)
    BY <1>11 DEF Free, Gone
  <2>3. Ordered(s) /\ LastDelivered(s) /\ GrantsOpen(s)
    BY <1>9, <2>1, <2>2 DEF Ordered, LastDelivered, GrantsOpen
  <2>4. LifeKnown(s) /\ ReportHolds(s)
    BY <1>11, <2>1, <2>2 DEF LifeKnown, ReportHolds
  <2>. QED
    BY <2>1, <2>3, <2>4 DEF GatewayInv, Shut
<1>. QED
  BY <1>8, <1>10, <1>12, <1>13, <1>14 DEF IInv

\* Every step of control plane, gateways, requests and member keeps it.
LEMMA StepIInv == IInv /\ [Next]_vars => IInv'
<1> SUFFICES ASSUME IInv, [Next]_vars PROVE IInv'
  OBVIOUS
<1>1. CASE UNCHANGED vars
  <2>1. /\ UNCHANGED <<rest, gate>> /\ UNCHANGED <<setup, pool, cluster, runtime, session, view,
                       gate, reply, post, req, obs, proof, scrape, fences>>
    BY <1>1 DEF vars, rest
  <2>2. /\ req' \in [Requests -> Req] /\ OwnersKnown' /\ ClosedInv'
        /\ \A t \in Nat : Ended(t) => Ended(t)'
    BY <2>1 DEF IInv, Types, OwnersKnown, ClosedInv, Ended
  <2>3. ASSUME NEW s \in Sessions PROVE GrantsOpen(s)' /\ LifeKnown(s)' /\ ReportHolds(s)'
    <3>1. GatewayInv(s)
      BY DEF IInv
    <3>2. GrantsOpen(s)' /\ LifeKnown(s)'
      BY <2>1, <3>1 DEF GatewayInv, GrantsOpen, Opened, LifeKnown, Free
    <3>3. ReportHolds(s)'
      BY <2>1, <3>1 DEF GatewayInv, ReportHolds, Free, Gone
    <3>. QED
      BY <3>2, <3>3
  <2>. QED
    BY <2>1, <2>2, <2>3, RequestsKeep
<1>2. ASSUME NEW s \in Sessions,
             \/ TrafficSnapshot(s) \/ Install(s) \/ Report(s) \/ TrafficReport(s)
             \/ Crash(s) \/ Finish(s) \/ InspectPod(s) \/ GatewayProof(s)
             \/ \E r \in Requests : Enter(r, s)
      PROVE  IInv'
  BY <1>2, SnapshotStep, InstallStep, ReportStep, TrafficReportStep, CrashStep, FinishStep,
     InspectPodStep, GatewayProofStep, EnterStep
<1>3. ASSUME NEW r \in Requests,
             Forward(r) \/ Arrive(r) \/ CheckSession(r) \/ CheckPool(r) \/ Leave(r) \/ Drop(r)
      PROVE  IInv'
  BY <1>3, RequestStep
<1>4. CASE \/ BindPool \/ Drain \/ FinishDrain \/ Activate \/ ReadyExpires
           \/ PutUnchanged \/ PutMutation \/ ApplyDesired \/ ReportCluster
           \/ OperatorReads \/ OperatorWrites \/ Rollout
  BY <1>4, PlainPoolSteps
<1>5. CASE Observe \/ Abandon \/ ObservePool \/ Refused \/ Scrape
  BY <1>5, ObserveStep, RoundEnds, ObservePoolStep, ScrapeStep
<1>. QED
  BY <1>1, <1>2, <1>3, <1>4, <1>5 DEF Next

\* The inductive invariant holds in every reachable state.
LEMMA Inductive == Spec => []IInv
  BY InitIInv, StepIInv, PTL DEF Spec

-----------------------------------------------------------------------------
(* The results.                                                            *)

\* pool_transition and the scaler's apply against traffic_snapshot,
\* traffic_report, authorize_serving and gateway_proof, with replies and reports
\* lost or late and gateways dying at any time: a pool that counts as drained
\* carries no request of a live gateway, and serves none of a dead one.
THEOREM DrainCorrect == Spec => []DrainedIsUnused
<1>1. IInv => DrainedIsUnused
  BY DEF IInv, ClosedInv, DrainedIsUnused, Unused, Closed
<1>. QED
  BY <1>1, Inductive, PTL

\* traffic_report: a generation is recorded as acknowledged by a gateway only
\* when that gateway has installed it, or a later one.
THEOREM AcksCorrect == Spec => []AckIsInstalled
<1>1. IInv => AckIsInstalled
  BY DEF IInv, GatewayInv, Ordered, AckIsInstalled
<1>. QED
  BY <1>1, Inductive, PTL

\* reconcile against pool_transition and put_desired: while a scaling operation
\* is under way the pool is where the operation left it, with its replicas, and
\* no revision asks for another count; one that omits the deployment may pass.
THEOREM OperationsCorrect == Spec => []OperationOwnsPool
<1>1. IInv => OperationOwnsPool
  BY DEF IInv, PoolInv, RowsInv
<1>. QED
  BY <1>1, Inductive, PTL

\* The ModelDeployment shrinks only when the agent applies a revision approved
\* while the pool was drained, and before the pool opens again. Unless the pool
\* was resized by hand, the operator's copy of it, the Deployment and the pods
\* follow in that order, and the pool opens again only when they have arrived:
\* no request loses its replica.
THEOREM ShrinkCorrect == Spec => ShrinksUnused
<1> DEFINE Shrunk == /\ runtime'.replicas < runtime.replicas => Unused
                     /\ runtime'.running < runtime.running /\ ~cluster.resized => Unused
<1>1. IInv /\ [Next]_vars => (Shrunk \/ UNCHANGED vars)
  <2> SUFFICES ASSUME IInv, Next PROVE Shrunk
    BY DEF vars
  <2>0. /\ runtime \in Runtime /\ pool.replicas \in Nat
        /\ runtime.replicas \in Int /\ runtime.copy \in Nat /\ runtime.spec \in Nat
        /\ runtime.running \in Nat /\ pool.op.up \in BOOLEAN
        /\ pool.op.phase \in {"none", "draining", "applying"}
    BY Counts DEF IInv, Types, Runtime, Pool, Op
  <2>1. runtime' = runtime \/ ApplyDesired \/ OperatorReads \/ OperatorWrites \/ Rollout
    <3>1. ASSUME NEW s \in Sessions,
                 \/ TrafficSnapshot(s) \/ Install(s) \/ Report(s) \/ TrafficReport(s)
                 \/ Crash(s) \/ Finish(s) \/ InspectPod(s) \/ GatewayProof(s)
                 \/ \E r \in Requests : Enter(r, s)
          PROVE  runtime' = runtime
      BY <3>1 DEF TrafficSnapshot, Install, Report, TrafficReport, Crash, Finish, InspectPod,
                  GatewayProof, Enter
    <3>2. ASSUME NEW r \in Requests,
                 Forward(r) \/ Arrive(r) \/ CheckSession(r) \/ CheckPool(r) \/ Leave(r) \/ Drop(r)
          PROVE  runtime' = runtime
      BY <3>2 DEF Forward, Arrive, CheckSession, CheckPool, Leave, Drop
    <3>3. CASE \/ BindPool \/ Drain \/ FinishDrain \/ Activate \/ ReadyExpires
               \/ PutUnchanged \/ PutMutation \/ ReportCluster
      BY <3>3 DEF BindPool, Drain, FinishDrain, Activate, Transition, ReadyExpires, PutUnchanged,
                  PutMutation, Put, ReportCluster
    <3>4. CASE Observe \/ Abandon \/ ObservePool \/ Refused \/ Scrape
      BY <3>4 DEF Observe, Abandon, ObservePool, Refused, Scrape
    <3>. QED
      BY <3>1, <3>2, <3>3, <3>4 DEF Next
  <2>2. pool.state \in Closed => Unused
    BY DEF IInv, ClosedInv, Unused
  <2>3. ASSUME runtime'.replicas < runtime.replicas PROVE Unused
    <3>1. runtime'.replicas # runtime.replicas
      BY <2>0, <2>3
    <3>2. runtime'.replicas = cluster.asks /\ cluster.asks # Omitted
      <4>1. CASE ApplyDesired
        BY <2>0, <3>1, <4>1 DEF ApplyDesired, Runtime
      <4>2. CASE OperatorReads \/ OperatorWrites
        BY <2>0, <3>1, <4>2 DEF OperatorReads, OperatorWrites, Runtime
      <4>3. CASE Rollout
        BY <2>0, <3>1, <4>3 DEF Rollout, Runtime
      <4>. QED
        BY <2>1, <3>1, <4>1, <4>2, <4>3
    <3>3. ASSUME pool.state \notin Closed PROVE FALSE
      <4>1. cluster.asks = pool.replicas /\ runtime.replicas =< pool.replicas
        BY <3>2, <3>3 DEF IInv, PoolInv, RowsInv, Approved, Closed
      <4>. QED
        BY <2>0, <2>3, <3>2, <4>1
    <3>. QED
      BY <2>2, <3>3
  <2>4. ASSUME runtime'.running < runtime.running, ~cluster.resized PROVE Unused
    <3>1. runtime.spec < runtime.running
      <4>0. runtime'.running # runtime.running
        BY <2>0, <2>4
      <4>1. CASE ApplyDesired \/ OperatorReads \/ OperatorWrites
        BY <2>0, <4>0, <4>1 DEF ApplyDesired, OperatorReads, OperatorWrites, Runtime
      <4>2. CASE Rollout
        <5>1. runtime' = [runtime EXCEPT !.running = runtime.spec]
          BY <2>0, <4>0, <4>2 DEF Rollout, Runtime
        <5>. QED
          BY <2>0, <2>4, <5>1 DEF Runtime
      <4>. QED
        BY <2>1, <4>0, <4>1, <4>2
    <3>2. ~Steady(pool.replicas) /\ ~Rising(pool.replicas)
      BY <2>0, <3>1 DEF Steady, Rising
    <3>3. pool.state = "retired" \/ (pool.op.phase = "applying" /\ ~pool.op.up)
      BY <2>0, <2>4, <3>2 DEF IInv, PoolInv, PodsInv
    <3>4. pool.state \in Closed
      BY <3>3 DEF IInv, PoolInv, RowsInv, OperationOwnsPool, Closed
    <3>. QED
      BY <2>2, <3>4
  <2>. QED
    BY <2>3, <2>4
<1>. QED
  BY <1>1, Inductive, PTL DEF Spec, ShrinksUnused

=============================================================================
