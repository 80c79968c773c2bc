------------------------------ MODULE Routing ------------------------------
(* From an operator's route change to the pool a request is sent to: the     *)
(* model catalog with its immutable prices (control-plane/catalog.rs), the   *)
(* route policy of one project and its release actions (releases.rs,         *)
(* repository.rs, domain/routing.rs), the API keys, the snapshot that the    *)
(* control plane assembles for a gateway from several statements, and the    *)
(* choice that the gateway makes from the snapshot it holds (gateway auth.rs *)
(* and proxy.rs).                                                            *)
(*                                                                           *)
(* The model looks at one project and the policy of the model Routed.        *)
(* A specification is a record: the stable pool, the canary pool or None,    *)
(* the canary's percentage and the header rules in order, each a cohort and  *)
(* a target.  Managed pools are the subject of ManagedTraffic.               *)
EXTENDS Naturals, Sequences, FiniteSets

CONSTANTS Models,        \* public model ids
          Routed,        \* the model whose policy is released, bootstrapped
          Pools,         \* serving pool ids
          Bootstrap,     \* pools of the start-up configuration: pool -> model
          Registrations, \* <<pool, model>> pairs an administrator may register
          Offers,        \* the PutModel requests of an administrator
          Specs,         \* the policies an owner may PUT
          Keys, Operators, Gateways, Cohorts,
          None,
          MaxChanges     \* bound: requests of administrators and operators

(* What a price version fixes: the terms of a model (prices, limits).        *)
Definitions == [version : Nat, terms : Nat]

ASSUME RoutingAssumption ==
    /\ Routed \in Models
    /\ Registrations \subseteq Pools \X Models
    /\ Offers \subseteq [model : Models, enabled : BOOLEAN, def : Definitions]
    /\ Specs \subseteq [stable : Pools, canary : Pools \cup {None}, percent : Nat,
                        headers : Seq([cohort : Cohorts, target : {"stable", "canary"}])]
    /\ None \notin Models \cup Pools \cup Definitions
    /\ MaxChanges \in Nat

VARIABLES catalog,    \* model_catalog: revision (0: no row), enabled, definition
          prices,     \* model_price: definition by model and price version
          endpoints,  \* serving_endpoint: generation (0: no row), model
          policy,     \* route_policy: revision (0: no row), spec
          history,    \* route_revision rows of the policy, in order
          keys,       \* api_key: "none", "active" or "revoked"
          operators,  \* the route change each operator has under way
          changes,    \* requests made so far
          reading,    \* the snapshot under assembly for each gateway
          installed   \* the snapshot each gateway routes by

vars == <<catalog, prices, endpoints, policy, history, keys, operators, changes, reading, installed>>
tables == <<catalog, prices, endpoints, policy, history, keys>>

Idle == [op |-> "idle", expected |-> 0, spec |-> None]
Unread == [keys |-> None, policies |-> None, models |-> None, endpoints |-> None]

(* Model::default(), the row that the first start creates.                   *)
DefaultModel == [version |-> 1, terms |-> 1]
Versions == {1} \cup {offer.def.version : offer \in Offers}

Request == changes < MaxChanges /\ changes' = changes + 1

Init ==
    /\ catalog = [m \in Models |-> [revision |-> 0, enabled |-> FALSE, def |-> None]]
    /\ prices = [m \in Models |-> [v \in Versions |-> None]]
    /\ endpoints = [p \in Pools |-> [generation |-> 0, model |-> None]]
    /\ policy = [revision |-> 0, spec |-> None]
    /\ history = <<>>
    /\ keys = [k \in Keys |-> "none"]
    /\ operators = [o \in Operators |-> Idle]
    /\ changes = 0
    /\ reading = [g \in Gateways |-> Unread]
    /\ installed = [g \in Gateways |-> Unread]

-----------------------------------------------------------------------------
(* The catalog and the keys.                                                 *)

(* Every start of the control plane inserts the default model and its price, *)
(* and leaves rows that exist alone.                                         *)
Unlisted(m) == catalog[m].revision = 0

BootstrapCatalog ==
    /\ catalog' = IF Unlisted(Routed)
                    THEN [catalog EXCEPT ![Routed] =
                            [revision |-> 1, enabled |-> TRUE, def |-> DefaultModel]]
                    ELSE catalog
    /\ prices' = IF prices[Routed][1] # None THEN prices
                   ELSE [prices EXCEPT ![Routed][1] = DefaultModel]
    /\ UNCHANGED <<endpoints, policy, history, keys, operators, changes, reading, installed>>

(* The price version is new, or bound to the very same definition.           *)
PriceFits_Always(m, def) == TRUE
PriceFits(m, def) == prices[m][def.version] \in {None, def}

PutModel(offer) ==
    LET m == offer.model IN
    /\ catalog[Routed].revision > 0
    /\ Request
    /\ PriceFits(m, offer.def)
    /\ catalog' = [catalog EXCEPT ![m] = [revision |-> @.revision + 1,
                                          enabled |-> offer.enabled, def |-> offer.def]]
    /\ prices' = IF prices[m][offer.def.version] = None
                   THEN [prices EXCEPT ![m][offer.def.version] = offer.def]
                   ELSE prices
    /\ UNCHANGED <<endpoints, policy, history, keys, operators, reading, installed>>

ActiveModel(m) == catalog[m].revision > 0 /\ catalog[m].enabled

(* The model of a registered pool is never rebound.                          *)
PutServingEndpoint(p, m) ==
    /\ ActiveModel(m)
    /\ Request
    /\ endpoints[p].model \in {None, m}
    /\ endpoints' = [endpoints EXCEPT ![p] = [generation |-> @.generation + 1, model |-> m]]
    /\ UNCHANGED <<catalog, prices, policy, history, keys, operators, reading, installed>>

IssueKey(k) ==
    /\ Request
    /\ keys[k] = "none"
    /\ ActiveModel(Routed)
    /\ keys' = [keys EXCEPT ![k] = "active"]
    /\ UNCHANGED <<catalog, prices, endpoints, policy, history, operators, reading, installed>>

RevokeKey(k) ==
    /\ Request
    /\ keys[k] = "active"
    /\ keys' = [keys EXCEPT ![k] = "revoked"]
    /\ UNCHANGED <<catalog, prices, endpoints, policy, history, operators, reading, installed>>

-----------------------------------------------------------------------------
(* Route policies.                                                           *)

(* The rules that remain keep their places: only their order matters.        *)
Pause_KeepsHeaders(spec) == [spec EXCEPT !.percent = 0]
Pause(spec) ==
    [spec EXCEPT !.percent = 0,
                 !.headers = [i \in {j \in DOMAIN @ : @[j].target = "stable"} |-> @[i]]]

Promote(spec) == [stable |-> spec.canary, canary |-> None, percent |-> 0, headers |-> <<>>]

(* RoutePolicySpec::validate: canary traffic needs a canary, another pool    *)
(* than the stable one, and no cohort is matched twice.                      *)
WellFormed(spec) ==
    /\ spec.stable # spec.canary
    /\ spec.percent \in 0 .. 100
    /\ spec.canary = None =>
         /\ spec.percent = 0
         /\ \A i \in DOMAIN spec.headers : spec.headers[i].target = "stable"
    /\ \A i, j \in DOMAIN spec.headers :
         spec.headers[i].cohort = spec.headers[j].cohort => i = j

(* route_pools: a registered endpoint replaces a start-up pool of its name.  *)
PoolModel(p) ==
    IF endpoints[p].generation > 0 THEN endpoints[p].model
    ELSE IF p \in DOMAIN Bootstrap THEN Bootstrap[p] ELSE None
PoolsFit(spec) == \A p \in {spec.stable, spec.canary} \ {None} : PoolModel(p) = Routed

(* The route changes an operator may ask for now, from the revision and the  *)
(* specification read now.                                                   *)
Changes ==
    {[op |-> "put", spec |-> s] : s \in Specs}
    \cup (IF policy.revision = 0 THEN {} ELSE
            {[op |-> "pause", spec |-> Pause(policy.spec)]}
            \cup (IF policy.spec.canary = None THEN {}
                  ELSE {[op |-> "promote", spec |-> Promote(policy.spec)]})
            \cup {[op |-> "rollback", spec |-> history[v].spec] : v \in 1 .. policy.revision - 1})

(* The handler reads the pools and, for a release action, the policy and the *)
(* target revision, outside any transaction.                                 *)
BeginChange(o) ==
    /\ operators[o].op = "idle"
    /\ Request
    /\ \E c \in Changes :
         /\ WellFormed(c.spec) /\ PoolsFit(c.spec)
         /\ operators' = [operators EXCEPT ![o] =
              [op |-> c.op, expected |-> policy.revision, spec |-> c.spec]]
    /\ UNCHANGED <<tables, reading, installed>>

(* put_route_policy: the conditional update, or the insert at revision 0,    *)
(* together with the history row.                                            *)
Swapped_Always(expected) == TRUE
Swapped(expected) == policy.revision = expected

CommitChange(o) ==
    /\ operators[o].op # "idle"
    /\ IF ActiveModel(Routed) /\ Swapped(operators[o].expected)
         THEN /\ policy' = [revision |-> operators[o].expected + 1, spec |-> operators[o].spec]
              /\ history' = Append(history, [op |-> operators[o].op, spec |-> operators[o].spec])
         ELSE UNCHANGED <<policy, history>>
    /\ operators' = [operators EXCEPT ![o] = Idle]
    /\ UNCHANGED <<catalog, prices, endpoints, keys, changes, reading, installed>>

-----------------------------------------------------------------------------
(* The gateway's snapshot.                                                   *)

(* gateway_snapshot reads one table after another, without a transaction.    *)
ReadOrder_PolicyLast == <<"keys", "models", "endpoints", "policies">>
ReadOrder == <<"keys", "policies", "models", "endpoints">>

Table(name) ==
    CASE name = "keys"      -> {k \in Keys : keys[k] = "active"}
      [] name = "policies"  -> policy
      [] name = "models"    -> catalog
      [] name = "endpoints" -> endpoints

Missing(g) == {i \in DOMAIN ReadOrder : reading[g][ReadOrder[i]] = None}

ReadTable(g) ==
    /\ Missing(g) # {}
    /\ LET next == ReadOrder[CHOOSE i \in Missing(g) : \A j \in Missing(g) : i <= j] IN
       reading' = [reading EXCEPT ![g][next] = Table(next)]
    /\ UNCHANGED <<tables, operators, changes, installed>>

(* KeySet::from_snapshot.  The statements may have seen an endpoint whose    *)
(* model they have not: then the gateway keeps what it has.                  *)
ValidSnapshot_EnabledOnly(s) ==
    /\ \A p \in Pools : s.endpoints[p].generation > 0 => s.models[s.endpoints[p].model].enabled
    /\ s.policies.revision > 0 => WellFormed(s.policies.spec)
ValidSnapshot(s) ==
    /\ \A p \in Pools : s.endpoints[p].generation > 0 =>
         s.models[s.endpoints[p].model].revision > 0
    /\ s.policies.revision > 0 => WellFormed(s.policies.spec)

Install(g) ==
    /\ Missing(g) = {}
    /\ ValidSnapshot(reading[g])
    /\ installed' = [installed EXCEPT ![g] = reading[g]]
    /\ reading' = [reading EXCEPT ![g] = Unread]
    /\ UNCHANGED <<tables, operators, changes>>

Refuse(g) ==
    /\ Missing(g) = {}
    /\ ~ValidSnapshot(reading[g])
    /\ reading' = [reading EXCEPT ![g] = Unread]
    /\ UNCHANGED <<tables, operators, changes, installed>>

(* A statement fails or the answer does not arrive: nothing changes.         *)
LoseSnapshot(g) ==
    /\ Missing(g) = {}
    /\ reading' = [reading EXCEPT ![g] = Unread]
    /\ UNCHANGED <<tables, operators, changes, installed>>

(* A gateway starts with the keys of its configuration: none.                *)
RestartGateway(g) ==
    /\ installed[g] # Unread
    /\ installed' = [installed EXCEPT ![g] = Unread]
    /\ reading' = [reading EXCEPT ![g] = Unread]
    /\ UNCHANGED <<tables, operators, changes>>

-----------------------------------------------------------------------------
(* The gateway's choice.  A request carries the cohorts of its headers and   *)
(* meets a random roll; it is routed by the snapshot that authenticated it.  *)

Target(spec, target) ==
    IF target = "canary" /\ spec.canary # None THEN spec.canary ELSE spec.stable

Select(spec, cohorts, roll) ==
    LET matching == {i \in DOMAIN spec.headers : spec.headers[i].cohort \in cohorts} IN
    IF matching # {}
      THEN Target(spec, spec.headers[CHOOSE i \in matching : \A j \in matching : i <= j].target)
    ELSE IF roll < spec.percent THEN Target(spec, "canary") ELSE spec.stable

Accepts(s, k) == s.keys # None /\ k \in s.keys
Serves(s, m) == s.models[m].revision > 0 /\ s.models[m].enabled

(* The pool is an endpoint of the snapshot or a start-up transport, of the   *)
(* model that the request names.                                             *)
Forwards(s, p, m) ==
    IF s.endpoints[p].generation > 0 THEN s.endpoints[p].model = m
    ELSE p \in DOMAIN Bootstrap /\ Bootstrap[p] = m

-----------------------------------------------------------------------------
Next ==
    \/ BootstrapCatalog
    \/ \E offer \in Offers : PutModel(offer)
    \/ \E r \in Registrations : PutServingEndpoint(r[1], r[2])
    \/ \E k \in Keys : IssueKey(k) \/ RevokeKey(k)
    \/ \E o \in Operators : BeginChange(o) \/ CommitChange(o)
    \/ \E g \in Gateways : ReadTable(g) \/ Install(g) \/ Refuse(g)
                           \/ LoseSnapshot(g) \/ RestartGateway(g)

(* The refresh thread runs on, and not every snapshot is lost.               *)
Fairness == \A g \in Gateways : WF_vars(ReadTable(g) \/ Refuse(g)) /\ SF_vars(Install(g))

Spec == Init /\ [][Next]_vars /\ Fairness

-----------------------------------------------------------------------------
(* The history tells how the current policy came about: it holds one entry   *)
(* per revision, the last is the current policy, a pause or a promotion was  *)
(* made from exactly the revision before it, and a rollback restores an      *)
(* earlier one, however two operators' reads and writes interleave           *)
(* (releases.rs release_action reads outside the transaction that writes).   *)
HistoryExplains ==
    /\ policy.revision = Len(history)
    /\ history # <<>> => policy.spec = history[Len(history)].spec
    /\ \A v \in DOMAIN history :
         CASE history[v].op = "pause"    -> v > 1 /\ history[v].spec = Pause(history[v - 1].spec)
           [] history[v].op = "promote"  -> v > 1 /\ history[v].spec = Promote(history[v - 1].spec)
           [] history[v].op = "rollback" -> \E w \in 1 .. v - 2 : history[v].spec = history[w].spec
           [] OTHER -> TRUE

(* The revision that a gateway reports with a request is the one that chose  *)
(* the pool, and after a pause no header and no roll reaches the canary      *)
(* (routing.rs pause and select, through the snapshot).                      *)
PausedMeansStable ==
    \A g \in Gateways :
      LET p == installed[g].policies IN
      p # None /\ p.revision > 0 =>
        /\ p.spec = history[p.revision].spec
        /\ history[p.revision].op = "pause" =>
             \A cohorts \in SUBSET Cohorts, roll \in {0, 50, 99} :
               Select(p.spec, cohorts, roll) = p.spec.stable

(* A start-up pool whose name an administrator registered for another model. *)
Rebound(s, p) ==
    /\ p \in DOMAIN Bootstrap
    /\ s.endpoints[p].generation > 0 /\ s.endpoints[p].model # Routed

(* Whatever a policy that a gateway installed can select is a pool to which  *)
(* the same snapshot forwards the request's model, although its tables were  *)
(* read at different times.  The one exception is a start-up pool rebound to *)
(* another model, which nothing forbids (repository.rs gateway_snapshot,     *)
(* proxy.rs request_filter).                                                 *)
PolicyIsServable ==
    \A g \in Gateways :
      LET s == installed[g] IN
      s # Unread /\ s.policies.revision > 0 =>
        \A cohorts \in SUBSET Cohorts, roll \in {0, 50, 99} :
          LET p == Select(s.policies.spec, cohorts, roll) IN
          Forwards(s, p, Routed) \/ Rebound(s, p)

(* A price version means one definition for ever: the one under which a      *)
(* gateway quotes a request, however old its snapshot, is the one that the   *)
(* settlement finds by its version (catalog.rs put_model, historical_price). *)
PriceIsEvidence ==
    /\ \A m \in Models : catalog[m].revision > 0 => prices[m][catalog[m].def.version] = catalog[m].def
    /\ \A g \in Gateways : installed[g] # Unread =>
         \A m \in Models : Serves(installed[g], m) =>
           LET def == installed[g].models[m].def IN prices[m][def.version] = def

(* Once the changes cease, a released policy and a revocation are in force   *)
(* at every gateway that keeps refreshing, again and again after restarts,   *)
(* although snapshots are lost, refused or assembled while tables change.    *)
ReleasesArrive ==
    \A g \in Gateways :
      []<>(/\ installed[g].policies = policy
           /\ \A k \in Keys : Accepts(installed[g], k) <=> keys[k] = "active")
=============================================================================
