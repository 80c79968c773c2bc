---------------------------- MODULE GatewayProofs ----------------------------
(***************************************************************************)
(* Proofs about the gateway: Routing, from a route change to the pool that *)
(* a request is sent to, and GatewayAdmission, from a request to the usage *)
(* that is paid for.                                                       *)
(*                                                                         *)
(* Routing, for any models, pools, operators, gateways and changes.  The   *)
(* tables are read at different times, so nothing that a gateway or an     *)
(* operator holds is current; but the history, the price book and the      *)
(* pools of the routed model only grow (Grows).  The invariant says of     *)
(* whatever is held that it was true when it was read, in terms that stay  *)
(* true, and the order of the reads does the rest.                         *)
(*                                                                         *)
(* GatewayAdmission, for any set of requests and any sizes of the queue,   *)
(* the channel and the pool of admission threads.  Requests share nothing  *)
(* but these bounds, so the invariant is stated per request.  It says what *)
(* the gateway may conclude from what it has in its hands: a decision, an  *)
(* answer or an event is only ever there when the control plane's hold has *)
(* moved on far enough, and a hold never moves back.                       *)
(***************************************************************************)
EXTENDS Routing, GatewayAdmission, WellFoundedInduction, TLAPS

-----------------------------------------------------------------------------
(* Routing.                                                                *)

\* A route specification: the stable pool is one, the canary is one or None,
\* and the header rules are numbered.
IsSpec(s) ==
    /\ s = [stable |-> s.stable, canary |-> s.canary, percent |-> s.percent, headers |-> s.headers]
    /\ s.stable \in Pools /\ s.canary \in Pools \cup {None}
    /\ DOMAIN s.headers \subseteq Nat

\* Every pool that a specification names is a start-up pool of the routed
\* model or registered for it in this endpoint table.
Fits(s, table) ==
    \A p \in {s.stable, s.canary} \ {None} :
        \/ table[p].generation > 0 /\ table[p].model = Routed
        \/ p \in DOMAIN Bootstrap /\ Bootstrap[p] = Routed

\* An operation that leads to this specification at revision v is explained
\* by the history before it.
Explained(op, spec, v, h) ==
    /\ op = "pause" => v > 1 /\ spec = Pause(h[v - 1].spec)
    /\ op = "promote" => v > 1 /\ spec = Promote(h[v - 1].spec)
    /\ op = "rollback" => \E w \in 1 .. v - 2 : spec = h[w].spec

\* Every entry of the history is a specification that its operation
\* explains.
HistoryOK ==
    /\ \E E : history \in Seq(E)
    /\ \A v \in 1 .. Len(history) :
         IsSpec(history[v].spec) /\ Explained(history[v].op, history[v].spec, v, history)

\* What a policy row says is what the history says of its revision.
Told(p, h) ==
    /\ p.revision \in 0 .. Len(h)
    /\ p.revision > 0 => p.spec = h[p.revision].spec

\* The row is the last entry of the history, and its pools are registered.
PolicyOK ==
    /\ policy.revision = Len(history)
    /\ Told(policy, history)
    /\ policy.revision > 0 => Fits(policy.spec, endpoints)

\* A change under way was explained and its pools registered when it was
\* read; the history and the endpoints only grow, so they still are. What
\* may be stale is only the revision it expects.
Planned(c, h, e) ==
    c.op # "idle" =>
        /\ c.expected \in 0 .. Len(h)
        /\ IsSpec(c.spec) /\ Fits(c.spec, e)
        /\ Explained(c.op, c.spec, c.expected + 1, h)

\* All changes under way are.
OperatorsOK ==
    /\ operators = [o \in Operators |-> operators[o]]
    /\ \A o \in Operators : Planned(operators[o], history, endpoints)

\* The type of the endpoint table.
EndpointsOK ==
    endpoints \in [Pools -> [generation : Nat, model : Models \cup {None}]]

\* The type of the price book, which is empty until the first start has
\* filled the catalog.
PricesOK ==
    /\ prices \in [Models -> [Versions -> Definitions \cup {None}]]
    /\ catalog[Routed].revision = 0 => \A m \in Models, v \in Versions : prices[m][v] = None

\* Every model of a catalog, however old, has the price that the book holds
\* for its version.
Priced(table, book) ==
    \A m \in Models : table[m].revision > 0 =>
        /\ table[m].def \in Definitions /\ table[m].def.version \in Versions
        /\ book[m][table[m].def.version] = table[m].def

\* The catalog's type, and its prices.
CatalogOK ==
    /\ catalog \in [Models -> [revision : Nat, enabled : BOOLEAN, def : Definitions \cup {None}]]
    /\ Priced(catalog, prices)

\* A snapshot, complete or not: its policy is one of the history, its models
\* are priced, and its endpoints, which were read after the policy, hold the
\* policy's pools.
SnapshotOK(s, h, e, book) ==
    /\ s = [keys |-> s.keys, policies |-> s.policies, models |-> s.models, endpoints |-> s.endpoints]
    /\ s.policies # None =>
         /\ Told(s.policies, h)
         /\ s.policies.revision > 0 => Fits(s.policies.spec, e)
    /\ s.models # None => Priced(s.models, book)
    /\ s.endpoints # None =>
         /\ s.policies # None
         /\ s.policies.revision > 0 => Fits(s.policies.spec, s.endpoints)

\* All tables of the snapshot have been read.
Complete(s) == s.policies # None /\ s.models # None /\ s.endpoints # None

\* What the gateways assemble and route by.
GatewaysOK ==
    /\ reading = [g \in Gateways |-> reading[g]] /\ installed = [g \in Gateways |-> installed[g]]
    /\ \A g \in Gateways :
         /\ SnapshotOK(reading[g], history, endpoints, prices)
         /\ SnapshotOK(installed[g], history, endpoints, prices)
         /\ installed[g] # Unread => Complete(installed[g])

\* The inductive invariant.
IInv == /\ EndpointsOK /\ CatalogOK /\ PricesOK
        /\ HistoryOK /\ PolicyOK /\ OperatorsOK /\ GatewaysOK
-----------------------------------------------------------------------------
\* A nonempty set of natural numbers has a least element.
LEMMA LeastExists ==
  ASSUME NEW S, S \subseteq Nat, S # {}
  PROVE  \E i \in S : \A j \in S : i <= j
<1>1. \E i \in S : \A j \in S : ~(<<j, i>> \in OpToRel(<, Nat))
  BY NatLessThanWellFounded, WFMin
<1>2. ASSUME NEW i \in Nat, NEW j \in Nat, ~(<<j, i>> \in OpToRel(<, Nat)) PROVE i <= j
  BY <1>2 DEF OpToRel
<1>. QED
  BY <1>1, <1>2

\* The specifications that an owner may put are some.
LEMMA SpecsFit ==
  ASSUME NEW s \in Specs
  PROVE  IsSpec(s)
<1>1. s \in [stable : Pools, canary : Pools \cup {None}, percent : Nat,
             headers : Seq([cohort : Cohorts, target : {"stable", "canary"}])]
  BY RoutingAssumption
<1>2. DOMAIN s.headers = 1 .. Len(s.headers)
  BY <1>1
<1>. QED
  BY <1>1, <1>2 DEF IsSpec

\* A pause leaves a specification, with no traffic for the canary.
LEMMA PauseFits ==
  ASSUME NEW s, IsSpec(s)
  PROVE  /\ IsSpec(Pause(s)) /\ Pause(s).stable = s.stable /\ Pause(s).percent = 0
         /\ \A i \in DOMAIN Pause(s).headers : Pause(s).headers[i].target = "stable"
<1>1. PICK h : h = [i \in {j \in DOMAIN s.headers : s.headers[j].target = "stable"} |-> s.headers[i]]
  OBVIOUS
<1>2. Pause(s) = [s EXCEPT !.percent = 0, !.headers = h]
  BY <1>1 DEF Pause, IsSpec
<1>3. DOMAIN h \subseteq Nat /\ \A i \in DOMAIN h : h[i].target = "stable"
  BY <1>1 DEF IsSpec
<1>4. Pause(s) = [stable |-> s.stable, canary |-> s.canary, percent |-> 0, headers |-> h]
  BY <1>2 DEF IsSpec
<1>. QED
  BY <1>3, <1>4 DEF IsSpec

\* A promotion leaves one.
LEMMA PromoteFits ==
  ASSUME NEW s, IsSpec(s), s.canary # None
  PROVE  IsSpec(Promote(s))
<1>1. DOMAIN <<>> \subseteq Nat
  OBVIOUS
<1>. QED
  BY <1>1 DEF IsSpec, Promote

\* The gateway's choice is always one of the pools that the specification
\* names.
LEMMA SelectsAPool ==
  ASSUME NEW s, IsSpec(s), NEW cohorts, NEW roll
  PROVE  Select(s, cohorts, roll) \in {s.stable, s.canary} \ {None}
<1>1. s.stable # None
  BY RoutingAssumption DEF IsSpec
<1>2. ASSUME NEW t PROVE Target(s, t) \in {s.stable, s.canary} \ {None}
  BY <1>1 DEF Target
<1>. QED
  BY <1>1, <1>2 DEF Select

\* After a pause it is the stable pool, whatever the headers and the roll.
LEMMA PausedSelectsStable ==
  ASSUME NEW s, IsSpec(s), NEW cohorts, NEW roll \in Nat
  PROVE  Select(Pause(s), cohorts, roll) = Pause(s).stable
<1>1. PICK t : t = Pause(s)
  OBVIOUS
<1>2. /\ IsSpec(t) /\ t.percent = 0 /\ \A i \in DOMAIN t.headers : t.headers[i].target = "stable"
  BY <1>1, PauseFits
<1>3. PICK M : M = {i \in DOMAIN t.headers : t.headers[i].cohort \in cohorts}
  OBVIOUS
<1>4. CASE M = {}
  <2>1. ~(roll < t.percent)
    BY <1>2
  <2>. QED
    BY <1>1, <1>3, <1>4, <2>1 DEF Select
<1>5. CASE M # {}
  <2>1. \E i \in M : \A j \in M : i <= j
    BY <1>2, <1>3, <1>5, LeastExists DEF IsSpec
  <2>2. PICK i : i = CHOOSE x \in M : \A j \in M : x <= j
    OBVIOUS
  <2>3. i \in M
    BY <2>1, <2>2
  <2>4. Select(t, cohorts, roll) = Target(t, t.headers[i].target)
    BY <1>3, <1>5, <2>2 DEF Select
  <2>. QED
    BY <1>1, <1>2, <1>3, <2>3, <2>4 DEF Target
<1>. QED
  BY <1>1, <1>4, <1>5
-----------------------------------------------------------------------------
\* The history is a sequence.
LEMMA HistoryTypes ==
  ASSUME HistoryOK
  PROVE  Len(history) \in Nat /\ DOMAIN history = 1 .. Len(history)
<1>1. PICK E : history \in Seq(E)
  BY DEF HistoryOK
<1>. QED
  BY <1>1

\* A policy that the history knows is a specification.
LEMMA ToldSpec ==
  ASSUME HistoryOK, NEW p, Told(p, history), p.revision > 0
  PROVE  IsSpec(p.spec)
<1>1. p.revision \in 1 .. Len(history)
  BY HistoryTypes DEF Told
<1>. QED
  BY <1>1 DEF Told, HistoryOK

\* The check of the pools when a change is read.
LEMMA FitsNow ==
  ASSUME EndpointsOK, NEW s, IsSpec(s), PoolsFit(s)
  PROVE  Fits(s, endpoints)
<1> SUFFICES ASSUME NEW p \in {s.stable, s.canary} \ {None}
             PROVE  \/ endpoints[p].generation > 0 /\ endpoints[p].model = Routed
                    \/ p \in DOMAIN Bootstrap /\ Bootstrap[p] = Routed
  BY DEF Fits
<1>1. PoolModel(p) = Routed /\ Routed # None
  BY RoutingAssumption DEF PoolsFit
<1>. QED
  BY <1>1 DEF PoolModel

\* What only grows: the history, the price book and the pools of the routed
\* model.
Grows ==
    /\ Len(history') \in Nat /\ Len(history) <= Len(history')
    /\ \A v \in 1 .. Len(history) : history'[v] = history[v]
    /\ \A p \in Pools : endpoints[p].generation > 0 /\ endpoints[p].model = Routed =>
                          endpoints'[p].generation > 0 /\ endpoints'[p].model = Routed
    /\ \A m \in Models, v \in Versions : prices[m][v] # None => prices'[m][v] = prices[m][v]

\* Pools that are registered stay so.
LEMMA FitsGrows ==
  ASSUME Grows, NEW s, IsSpec(s), Fits(s, endpoints)
  PROVE  Fits(s, endpoints')
<1>1. {s.stable, s.canary} \ {None} \subseteq Pools
  BY DEF IsSpec
<1>. QED
  BY <1>1 DEF Grows, Fits

\* What the history told stays told.
LEMMA ToldGrows ==
  ASSUME HistoryOK, Grows, NEW p, Told(p, history)
  PROVE  Told(p, history')
<1>1. p.revision \in 0 .. Len(history) /\ Len(history) \in Nat
  BY HistoryTypes DEF Told
<1>. QED
  BY <1>1 DEF Grows, Told

\* Prices stay.
LEMMA PricedGrows ==
  ASSUME Grows, NEW t, Priced(t, prices)
  PROVE  Priced(t, prices')
<1> SUFFICES ASSUME NEW m \in Models, t[m].revision > 0
             PROVE  /\ t[m].def \in Definitions /\ t[m].def.version \in Versions
                    /\ prices'[m][t[m].def.version] = t[m].def
  BY DEF Priced
<1>1. /\ t[m].def \in Definitions /\ t[m].def.version \in Versions
      /\ prices[m][t[m].def.version] = t[m].def
  BY DEF Priced
<1>2. t[m].def # None
  BY <1>1, RoutingAssumption
<1>. QED
  BY <1>1, <1>2 DEF Grows

\* A snapshot stays good while tables grow.
LEMMA SnapshotGrows ==
  ASSUME HistoryOK, Grows, NEW s, SnapshotOK(s, history, endpoints, prices)
  PROVE  SnapshotOK(s, history', endpoints', prices')
<1>1. ASSUME s.policies # None
      PROVE  /\ Told(s.policies, history')
             /\ s.policies.revision > 0 => Fits(s.policies.spec, endpoints')
  <2>1. Told(s.policies, history)
    BY <1>1 DEF SnapshotOK
  <2>. QED
    BY <1>1, <2>1, ToldGrows, ToldSpec, FitsGrows DEF SnapshotOK
<1>2. s.models # None => Priced(s.models, prices')
  BY PricedGrows DEF SnapshotOK
<1>. QED
  BY <1>1, <1>2 DEF SnapshotOK

\* What is explained stays explained.
LEMMA ExplainedGrows ==
  ASSUME HistoryOK, Grows, NEW op, NEW spec, NEW v \in 1 .. Len(history) + 1,
         Explained(op, spec, v, history)
  PROVE  Explained(op, spec, v, history')
<1>1. v \in Nat /\ Len(history) \in Nat /\ (v > 1 => v - 1 \in 1 .. Len(history))
  BY HistoryTypes
<1>2. \A w \in 1 .. v - 2 : w \in 1 .. Len(history)
  BY <1>1
<1>. QED
  BY <1>1, <1>2 DEF Grows, Explained

\* So does a change under way.
LEMMA PlannedGrows ==
  ASSUME HistoryOK, Grows, NEW c, Planned(c, history, endpoints)
  PROVE  Planned(c, history', endpoints')
<1> SUFFICES ASSUME c.op # "idle"
             PROVE  /\ c.expected \in 0 .. Len(history')
                    /\ IsSpec(c.spec) /\ Fits(c.spec, endpoints')
                    /\ Explained(c.op, c.spec, c.expected + 1, history')
  BY DEF Planned
<1>1. /\ c.expected \in 0 .. Len(history) /\ IsSpec(c.spec) /\ Fits(c.spec, endpoints)
      /\ Explained(c.op, c.spec, c.expected + 1, history)
  BY DEF Planned
<1>2. c.expected \in 0 .. Len(history') /\ c.expected + 1 \in 1 .. Len(history) + 1
  BY <1>1, HistoryTypes DEF Grows
<1>. QED
  BY <1>1, <1>2, FitsGrows, ExplainedGrows

\* Gateways that do not move, and
LEMMA GatewaysGrow ==
  ASSUME IInv, Grows, UNCHANGED <<reading, installed>>
  PROVE  GatewaysOK'
  BY SnapshotGrows DEF IInv, GatewaysOK, Complete

\* operators that do not move, keep their promises.
LEMMA OperatorsGrow ==
  ASSUME IInv, Grows, UNCHANGED operators
  PROVE  OperatorsOK'
  BY PlannedGrows DEF IInv, OperatorsOK

\* So does the policy while no change commits.
LEMMA RoutesStay ==
  ASSUME IInv, Grows, UNCHANGED <<policy, history>>
  PROVE  HistoryOK' /\ PolicyOK'
<1>1. HistoryOK'
  BY DEF IInv, HistoryOK
<1>2. policy.revision > 0 => Fits(policy.spec, endpoints')
  BY ToldSpec, FitsGrows DEF IInv, PolicyOK
<1>. QED
  BY <1>1, <1>2 DEF IInv, PolicyOK

\* A step that changes no table.
LEMMA TablesStay ==
  ASSUME IInv, UNCHANGED <<catalog, prices, endpoints, policy, history>>
  PROVE  Grows /\ EndpointsOK' /\ CatalogOK' /\ PricesOK' /\ HistoryOK' /\ PolicyOK'
<1>1. Grows
  BY HistoryTypes DEF Grows, IInv
<1>2. EndpointsOK' /\ CatalogOK' /\ PricesOK'
  BY DEF IInv, EndpointsOK, CatalogOK, PricesOK
<1>. QED
  BY <1>1, <1>2, RoutesStay

-----------------------------------------------------------------------------
\* A price is written where there was none, and never over another.
LEMMA PriceIsSet ==
  ASSUME IInv, NEW m \in Models, NEW d \in Definitions, d.version \in Versions,
         prices[m][d.version] \in {None, d},
         prices' = IF prices[m][d.version] = None
                     THEN [prices EXCEPT ![m][d.version] = d] ELSE prices
  PROVE  /\ prices' \in [Models -> [Versions -> Definitions \cup {None}]]
         /\ prices'[m][d.version] = d
         /\ \A n \in Models, v \in Versions : prices[n][v] # None => prices'[n][v] = prices[n][v]
<1>1. prices \in [Models -> [Versions -> Definitions \cup {None}]]
  BY DEF IInv, PricesOK
<1>2. CASE prices[m][d.version] = None
  BY <1>1, <1>2
<1>3. CASE prices[m][d.version] # None
  BY <1>1, <1>3
<1>. QED
  BY <1>2, <1>3

\* A model is listed, under a definition that the price book holds.
LEMMA ListingKeeps ==
  ASSUME IInv, Grows, UNCHANGED <<endpoints, policy, history, operators, reading, installed>>,
         prices' \in [Models -> [Versions -> Definitions \cup {None}]],
         NEW m \in Models, NEW d \in Definitions, d.version \in Versions,
         prices'[m][d.version] = d,
         NEW r \in Nat, NEW b \in BOOLEAN,
         catalog' = [catalog EXCEPT ![m] = [revision |-> r, enabled |-> b, def |-> d]],
         catalog'[Routed].revision # 0
  PROVE  IInv'
<1>1. catalog \in [Models -> [revision : Nat, enabled : BOOLEAN, def : Definitions \cup {None}]]
  BY DEF IInv, CatalogOK
<1>2. [revision |-> r, enabled |-> b, def |-> d] \in
        [revision : Nat, enabled : BOOLEAN, def : Definitions \cup {None}]
  OBVIOUS
<1>3. /\ catalog' \in [Models -> [revision : Nat, enabled : BOOLEAN, def : Definitions \cup {None}]]
      /\ catalog'[m].def = d /\ \A n \in Models \ {m} : catalog'[n] = catalog[n]
  BY <1>1, <1>2
<1>4. Priced(catalog', prices')
  <2>1. Priced(catalog, prices')
    BY PricedGrows DEF IInv, CatalogOK
  <2>. QED
    BY <1>3, <2>1 DEF Priced
<1>5. CatalogOK' /\ PricesOK' /\ EndpointsOK'
  BY <1>3, <1>4 DEF CatalogOK, PricesOK, EndpointsOK, IInv
<1>. QED
  BY <1>5, RoutesStay, OperatorsGrow, GatewaysGrow DEF IInv

\* A start of the control plane.
LEMMA BootstrapKeeps ==
  ASSUME IInv, BootstrapCatalog
  PROVE  IInv'
<1>1. /\ DefaultModel \in Definitions /\ DefaultModel.version = 1 /\ 1 \in Versions
      /\ Routed \in Models /\ DefaultModel # None
  BY RoutingAssumption DEF DefaultModel, Definitions, Versions
<1>2. UNCHANGED <<endpoints, policy, history, operators, reading, installed>>
  BY DEF BootstrapCatalog
<1>3. CASE prices[Routed][1] \notin {None, DefaultModel}
  <2>1. ~Unlisted(Routed) /\ prices' = prices
    BY <1>1, <1>3 DEF BootstrapCatalog, Unlisted, IInv, PricesOK
  <2>2. UNCHANGED <<catalog, prices, endpoints, policy, history>>
    BY <1>2, <2>1 DEF BootstrapCatalog
  <2>. QED
    BY <1>2, <2>2, TablesStay, OperatorsGrow, GatewaysGrow DEF IInv
<1>4. CASE prices[Routed][1] \in {None, DefaultModel}
  <2>1. prices' = IF prices[Routed][1] = None
                    THEN [prices EXCEPT ![Routed][1] = DefaultModel] ELSE prices
    BY DEF BootstrapCatalog
  <2>2. /\ prices' \in [Models -> [Versions -> Definitions \cup {None}]]
        /\ prices'[Routed][1] = DefaultModel
        /\ \A n \in Models, v \in Versions : prices[n][v] # None => prices'[n][v] = prices[n][v]
    BY <1>1, <1>4, <2>1, PriceIsSet
  <2>3. Grows
    BY <1>2, <2>2, HistoryTypes DEF Grows, IInv
  <2>4. CASE Unlisted(Routed)
    <3>1. catalog' = [catalog EXCEPT ![Routed] =
                        [revision |-> 1, enabled |-> TRUE, def |-> DefaultModel]]
      BY <2>4 DEF BootstrapCatalog
    <3>2. catalog'[Routed].revision # 0
      BY <1>1, <3>1 DEF IInv, CatalogOK
    <3>. QED
      BY <1>1, <1>2, <2>2, <2>3, <3>1, <3>2, ListingKeeps
  <2>5. CASE ~Unlisted(Routed)
    <3>1. catalog' = catalog /\ catalog[Routed].revision # 0
      BY <2>5 DEF BootstrapCatalog, Unlisted
    <3>2. Priced(catalog, prices')
      BY <2>3, PricedGrows DEF IInv, CatalogOK
    <3>3. CatalogOK' /\ PricesOK' /\ EndpointsOK'
      BY <1>2, <2>2, <3>1, <3>2 DEF CatalogOK, PricesOK, EndpointsOK, IInv
    <3>. QED
      BY <1>2, <2>3, <3>3, RoutesStay, OperatorsGrow, GatewaysGrow DEF IInv
  <2>. QED
    BY <2>4, <2>5
<1>. QED
  BY <1>3, <1>4

\* An administrator puts a model.
LEMMA PutModelKeeps ==
  ASSUME IInv, NEW offer \in Offers, PutModel(offer)
  PROVE  IInv'
<1>1. PICK m, d : m = offer.model /\ d = offer.def
  OBVIOUS
<1>2. m \in Models /\ d \in Definitions /\ offer.enabled \in BOOLEAN /\ Routed \in Models
  BY <1>1, RoutingAssumption
<1>3. d.version \in Versions
  BY <1>1 DEF Versions
<1>4. catalog \in [Models -> [revision : Nat, enabled : BOOLEAN, def : Definitions \cup {None}]]
  BY DEF IInv, CatalogOK
<1>5. PICK r : r = catalog[m].revision + 1
  OBVIOUS
<1>6. r \in Nat /\ r # 0
  BY <1>2, <1>4, <1>5
<1>7. /\ catalog' = [catalog EXCEPT ![m] = [revision |-> r, enabled |-> offer.enabled, def |-> d]]
      /\ prices' = IF prices[m][d.version] = None
                     THEN [prices EXCEPT ![m][d.version] = d] ELSE prices
      /\ prices[m][d.version] \in {None, d} /\ catalog[Routed].revision > 0
      /\ UNCHANGED <<endpoints, policy, history, operators, reading, installed>>
  BY <1>1, <1>5 DEF PutModel, PriceFits
<1>8. /\ prices' \in [Models -> [Versions -> Definitions \cup {None}]]
      /\ prices'[m][d.version] = d
      /\ \A n \in Models, v \in Versions : prices[n][v] # None => prices'[n][v] = prices[n][v]
  BY <1>2, <1>3, <1>7, PriceIsSet
<1>9. Grows
  BY <1>7, <1>8, HistoryTypes DEF Grows, IInv
<1>10. catalog'[Routed].revision # 0
  BY <1>2, <1>4, <1>6, <1>7
<1>. QED
  BY <1>2, <1>3, <1>6, <1>7, <1>8, <1>9, <1>10, ListingKeeps

\* An administrator registers a pool; the model of a registered one stays.
LEMMA PutEndpointKeeps ==
  ASSUME IInv, NEW r \in Registrations, PutServingEndpoint(r[1], r[2])
  PROVE  IInv'
<1>1. PICK p, m : p = r[1] /\ m = r[2]
  OBVIOUS
<1>2. p \in Pools /\ m \in Models /\ None \notin Models /\ Routed \in Models
  BY <1>1, RoutingAssumption
<1>3. endpoints \in [Pools -> [generation : Nat, model : Models \cup {None}]]
  BY DEF IInv, EndpointsOK
<1>4. PICK n : n = endpoints[p].generation + 1
  OBVIOUS
<1>5. n \in Nat /\ n > 0
  BY <1>2, <1>3, <1>4
<1>6. /\ endpoints' = [endpoints EXCEPT ![p] = [generation |-> n, model |-> m]]
      /\ endpoints[p].model \in {None, m}
      /\ UNCHANGED <<catalog, prices, policy, history, operators, reading, installed>>
  BY <1>1, <1>4 DEF PutServingEndpoint
<1>7. /\ endpoints' \in [Pools -> [generation : Nat, model : Models \cup {None}]]
      /\ endpoints'[p].generation = n /\ endpoints'[p].model = m
      /\ \A q \in Pools \ {p} : endpoints'[q] = endpoints[q]
  BY <1>2, <1>3, <1>5, <1>6
<1>8. Grows
  BY <1>2, <1>5, <1>6, <1>7, HistoryTypes DEF Grows, IInv
<1>9. EndpointsOK' /\ CatalogOK' /\ PricesOK'
  BY <1>6, <1>7 DEF EndpointsOK, CatalogOK, PricesOK, IInv
<1>. QED
  BY <1>6, <1>8, <1>9, RoutesStay, OperatorsGrow, GatewaysGrow DEF IInv

\* A key is issued or revoked.
LEMMA KeysKeep ==
  ASSUME IInv, NEW k \in Keys, IssueKey(k) \/ RevokeKey(k)
  PROVE  IInv'
<1>1. UNCHANGED <<catalog, prices, endpoints, policy, history, operators, reading, installed>>
  BY DEF IssueKey, RevokeKey
<1>. QED
  BY <1>1, TablesStay, OperatorsGrow, GatewaysGrow DEF IInv

-----------------------------------------------------------------------------
\* Every change that an operator may ask for is explained by the policy and
\* the history read with it.
LEMMA ChangesAreExplained ==
  ASSUME IInv, NEW c \in Changes
  PROVE  IsSpec(c.spec) /\ Explained(c.op, c.spec, policy.revision + 1, history)
<1>1. PICK n : n = Len(history)
  OBVIOUS
<1>2. n \in Nat /\ policy.revision = n
  BY <1>1, HistoryTypes DEF IInv, PolicyOK
<1>3. n > 0 => policy.spec = history[n].spec /\ IsSpec(policy.spec)
  BY <1>1, <1>2, ToldSpec DEF IInv, PolicyOK, Told
<1>4. CASE \E s \in Specs : c = [op |-> "put", spec |-> s]
  BY <1>4, SpecsFit DEF Explained
<1>5. CASE n > 0 /\ c = [op |-> "pause", spec |-> Pause(policy.spec)]
  BY <1>2, <1>3, <1>5, PauseFits DEF Explained
<1>6. CASE n > 0 /\ policy.spec.canary # None /\ c = [op |-> "promote", spec |-> Promote(policy.spec)]
  BY <1>2, <1>3, <1>6, PromoteFits DEF Explained
<1>7. CASE \E v \in 1 .. n - 1 : c = [op |-> "rollback", spec |-> history[v].spec]
  <2>1. PICK v \in 1 .. n - 1 : c = [op |-> "rollback", spec |-> history[v].spec]
    BY <1>7
  <2>2. v \in 1 .. Len(history) /\ v \in 1 .. (n + 1) - 2
    BY <1>1, <1>2
  <2>3. c.op = "rollback" /\ c.spec = history[v].spec /\ IsSpec(c.spec)
    BY <2>1, <2>2 DEF IInv, HistoryOK
  <2>. QED
    BY <1>2, <2>2, <2>3 DEF Explained
<1>. QED
  BY <1>2, <1>4, <1>5, <1>6, <1>7 DEF Changes

\* An operator reads and plans a change.
LEMMA BeginChangeKeeps ==
  ASSUME IInv, NEW o \in Operators, BeginChange(o)
  PROVE  IInv'
<1>1. UNCHANGED <<catalog, prices, endpoints, policy, history, reading, installed>>
  BY DEF BeginChange, tables
<1>2. PICK c \in Changes : /\ PoolsFit(c.spec)
                           /\ operators' = [operators EXCEPT ![o] =
                                [op |-> c.op, expected |-> policy.revision, spec |-> c.spec]]
  BY DEF BeginChange
<1>3. PICK plan : plan = [op |-> c.op, expected |-> policy.revision, spec |-> c.spec]
  OBVIOUS
<1>4. plan.op = c.op /\ plan.expected = policy.revision /\ plan.spec = c.spec
  BY <1>3
<1>5. Planned(plan, history, endpoints)
  <2>1. IsSpec(c.spec) /\ Explained(c.op, c.spec, policy.revision + 1, history)
    BY ChangesAreExplained
  <2>2. Fits(c.spec, endpoints)
    BY <1>2, <2>1, FitsNow DEF IInv
  <2>3. policy.revision \in 0 .. Len(history)
    BY HistoryTypes DEF IInv, PolicyOK
  <2>. QED
    BY <1>4, <2>1, <2>2, <2>3 DEF Planned
<1>6. OperatorsOK'
  <2>1. /\ operators' = [q \in Operators |-> operators'[q]] /\ operators'[o] = plan
        /\ \A q \in Operators \ {o} : operators'[q] = operators[q]
    BY <1>2, <1>3 DEF IInv, OperatorsOK
  <2>. QED
    BY <1>1, <1>5, <2>1 DEF IInv, OperatorsOK
<1>. QED
  BY <1>1, <1>6, TablesStay, GatewaysGrow DEF IInv

\* A change commits. The conditional update lets it pass only when the
\* revision it was planned from is still the last, so that the explanation
\* fits the new entry.
LEMMA CommitChangeKeeps ==
  ASSUME IInv, NEW o \in Operators, CommitChange(o)
  PROVE  IInv'
<1>1. UNCHANGED <<catalog, prices, endpoints, reading, installed>>
  BY DEF CommitChange
<1>2. /\ operators[o].op # "idle" /\ operators' = [operators EXCEPT ![o] = Idle]
  BY DEF CommitChange
<1>3. ASSUME Grows PROVE OperatorsOK'
  <2>1. Planned(Idle, history', endpoints')
    BY DEF Planned, Idle
  <2>2. /\ operators' = [q \in Operators |-> operators'[q]] /\ operators'[o] = Idle
        /\ \A q \in Operators \ {o} : operators'[q] = operators[q]
    BY <1>2 DEF IInv, OperatorsOK
  <2>3. \A q \in Operators : Planned(operators[q], history', endpoints')
    BY <1>3, PlannedGrows DEF IInv, OperatorsOK
  <2>. QED
    BY <2>1, <2>2, <2>3 DEF OperatorsOK
<1>4. CASE UNCHANGED <<policy, history>>
  BY <1>1, <1>3, <1>4, TablesStay, GatewaysGrow DEF IInv
<1>5. CASE ~UNCHANGED <<policy, history>>
  <2>1. PICK c, e, n : /\ c = operators[o] /\ e = [op |-> operators[o].op, spec |-> operators[o].spec]
                       /\ n = Len(history)
    OBVIOUS
  <2>2. /\ n \in Nat /\ e.op = c.op /\ e.spec = c.spec /\ c.op # "idle"
        /\ Planned(c, history, endpoints) /\ policy.revision = n
    BY <1>2, <2>1, HistoryTypes DEF IInv, OperatorsOK, PolicyOK
  <2>3. /\ c.expected = n /\ history' = Append(history, e)
        /\ policy' = [revision |-> n + 1, spec |-> c.spec]
    BY <1>5, <2>1, <2>2 DEF CommitChange, Swapped
  <2>4. /\ \E E : history' \in Seq(E)
        /\ Len(history') = n + 1 /\ history'[n + 1] = e
        /\ \A v \in 1 .. n : history'[v] = history[v]
    <3>1. PICK E : history \in Seq(E)
      BY DEF IInv, HistoryOK
    <3>2. history \in Seq(E \cup {e}) /\ e \in E \cup {e}
      BY <3>1
    <3>3. history' \in Seq(E \cup {e})
      BY <2>3, <3>2
    <3>. QED
      BY <2>1, <2>3, <3>1, <3>2, <3>3
  <2>5. Grows
    BY <1>1, <2>1, <2>2, <2>4 DEF Grows
  <2>6. HistoryOK'
    <3> SUFFICES ASSUME NEW v \in 1 .. n + 1
                 PROVE  /\ IsSpec(history'[v].spec)
                        /\ Explained(history'[v].op, history'[v].spec, v, history')
      BY <2>4 DEF HistoryOK
    <3>1. CASE v \in 1 .. n
      BY <2>1, <2>2, <2>4, <2>5, <3>1, ExplainedGrows DEF IInv, HistoryOK
    <3>2. CASE v = n + 1
      <4>1. IsSpec(c.spec) /\ Explained(c.op, c.spec, n + 1, history)
        BY <2>2, <2>3 DEF Planned
      <4>2. Explained(c.op, c.spec, n + 1, history')
        BY <2>1, <2>2, <2>5, <4>1, ExplainedGrows DEF IInv
      <4>. QED
        BY <2>2, <2>4, <3>2, <4>1, <4>2
    <3>. QED
      BY <2>2, <3>1, <3>2
  <2>7. PolicyOK'
    <3>1. policy'.revision = n + 1 /\ policy'.spec = c.spec
      BY <2>3
    <3>2. Fits(c.spec, endpoints')
      BY <1>1, <2>2 DEF Planned
    <3>. QED
      BY <2>2, <2>4, <3>1, <3>2 DEF PolicyOK, Told
  <2>8. EndpointsOK' /\ CatalogOK' /\ PricesOK'
    BY <1>1 DEF EndpointsOK, CatalogOK, PricesOK, IInv
  <2>. QED
    BY <1>1, <1>3, <2>5, <2>6, <2>7, <2>8, GatewaysGrow DEF IInv
<1>. QED
  BY <1>4, <1>5

-----------------------------------------------------------------------------
\* An empty snapshot promises nothing.
LEMMA UnreadIsOK == SnapshotOK(Unread, history, endpoints, prices)
  BY DEF SnapshotOK, Unread

\* The order of the reads, written out.
LEMMA Order ==
  /\ DOMAIN ReadOrder = 1 .. 4 /\ ReadOrder[1] = "keys" /\ ReadOrder[2] = "policies"
  /\ ReadOrder[3] = "models" /\ ReadOrder[4] = "endpoints"
  BY DEF ReadOrder

\* The tables, written out.
LEMMA Tables ==
  Table("policies") = policy /\ Table("models") = catalog /\ Table("endpoints") = endpoints
<1>1. Table("policies") = policy
  BY Zenon DEF Table
<1>2. Table("models") = catalog
  BY Zenon DEF Table
<1>3. Table("endpoints") = endpoints
  BY Zenon DEF Table
<1>. QED
  BY <1>1, <1>2, <1>3

\* A step of one gateway that changes no table.
LEMMA GatewayStep ==
  ASSUME IInv, UNCHANGED <<tables, operators>>, NEW g \in Gateways,
         NEW r, NEW s, reading' = [reading EXCEPT ![g] = r], installed' = [installed EXCEPT ![g] = s],
         SnapshotOK(r, history, endpoints, prices), SnapshotOK(s, history, endpoints, prices),
         s # Unread => Complete(s)
  PROVE  IInv'
<1>1. UNCHANGED <<catalog, prices, endpoints, policy, history>>
  BY DEF tables
<1>2. /\ reading' = [q \in Gateways |-> reading'[q]] /\ reading'[g] = r
      /\ installed' = [q \in Gateways |-> installed'[q]] /\ installed'[g] = s
      /\ \A q \in Gateways \ {g} : reading'[q] = reading[q] /\ installed'[q] = installed[q]
  BY DEF IInv, GatewaysOK
<1>3. GatewaysOK'
  BY <1>1, <1>2 DEF IInv, GatewaysOK, Complete
<1>. QED
  BY <1>1, <1>3, TablesStay, OperatorsGrow DEF IInv

\* A snapshot is installed, refused, lost or forgotten.
LEMMA SnapshotStepsKeep ==
  ASSUME IInv, NEW g \in Gateways, Install(g) \/ Refuse(g) \/ LoseSnapshot(g) \/ RestartGateway(g)
  PROVE  IInv'
<1>1. /\ UNCHANGED <<tables, operators>> /\ reading' = [reading EXCEPT ![g] = Unread]
  BY DEF Install, Refuse, LoseSnapshot, RestartGateway
<1>2. CASE Install(g)
  <2>1. Complete(reading[g])
    BY <1>2, Order DEF Install, Missing, Complete
  <2>2. SnapshotOK(reading[g], history, endpoints, prices)
    BY DEF IInv, GatewaysOK
  <2>3. PICK s : s = reading[g]
    OBVIOUS
  <2>. QED
    BY <1>1, <1>2, <2>1, <2>2, <2>3, UnreadIsOK, GatewayStep DEF Install
<1>3. CASE Refuse(g) \/ LoseSnapshot(g)
  <2>1. PICK s : s = installed[g]
    OBVIOUS
  <2>2. installed' = [installed EXCEPT ![g] = s]
    BY <1>3, <2>1 DEF Refuse, LoseSnapshot, IInv, GatewaysOK
  <2>3. SnapshotOK(s, history, endpoints, prices) /\ (s # Unread => Complete(s))
    BY <2>1 DEF IInv, GatewaysOK
  <2>. QED
    BY <1>1, <2>2, <2>3, UnreadIsOK, GatewayStep
<1>4. CASE RestartGateway(g)
  BY <1>1, <1>4, UnreadIsOK, GatewayStep DEF RestartGateway
<1>. QED
  BY <1>2, <1>3, <1>4

\* The next table is read. Endpoints come last, so that they hold the pools
\* of the policy read before.
LEMMA ReadTableKeeps ==
  ASSUME IInv, NEW g \in Gateways, ReadTable(g)
  PROVE  IInv'
<1>1. PICK s : s = reading[g]
  OBVIOUS
<1>2. PICK i \in Missing(g) :
        /\ \A j \in Missing(g) : i <= j
        /\ reading' = [reading EXCEPT ![g][ReadOrder[i]] = Table(ReadOrder[i])]
  <2>1. Missing(g) \subseteq 1 .. 4 /\ Missing(g) # {}
    BY Order DEF Missing, ReadTable
  <2>2. \E i \in Missing(g) : \A j \in Missing(g) : i <= j
    BY <2>1, LeastExists
  <2>. QED
    BY <2>2 DEF ReadTable
<1>3. i \in 1 .. 4 /\ s[ReadOrder[i]] = None /\ \A j \in 1 .. i - 1 : s[ReadOrder[j]] # None
  <2>1. i \in 1 .. 4 /\ s[ReadOrder[i]] = None
    BY <1>1, Order DEF Missing
  <2>2. ASSUME NEW j \in 1 .. i - 1 PROVE s[ReadOrder[j]] # None
    <3>1. j \in 1 .. 4 /\ ~(i <= j)
      BY <2>1
    <3>. QED
      BY <1>1, <1>2, <3>1, Order DEF Missing
  <2>. QED
    BY <2>1, <2>2
<1>4. SnapshotOK(s, history, endpoints, prices)
  BY <1>1 DEF IInv, GatewaysOK
<1>5. PICK r : r = [s EXCEPT ![ReadOrder[i]] = Table(ReadOrder[i])]
  OBVIOUS
<1>6. reading' = [reading EXCEPT ![g] = r]
  BY <1>1, <1>2, <1>5
<1>7. SnapshotOK(r, history, endpoints, prices)
  <2>1. s = [keys |-> s.keys, policies |-> s.policies, models |-> s.models, endpoints |-> s.endpoints]
    BY <1>4 DEF SnapshotOK
  <2>2. /\ Told(policy, history) /\ (policy.revision > 0 => Fits(policy.spec, endpoints))
        /\ Priced(catalog, prices)
    BY DEF IInv, PolicyOK, CatalogOK
  <2>3. CASE i = 1
    <3>1. r = [s EXCEPT !.keys = Table("keys")]
      BY <1>5, <2>3, Order
    <3>2. r = [keys |-> Table("keys"), policies |-> s.policies, models |-> s.models,
               endpoints |-> s.endpoints]
      BY <2>1, <3>1
    <3>. QED
      BY <1>4, <3>2 DEF SnapshotOK
  <2>4. CASE i = 2
    <3>1. r = [s EXCEPT !.policies = policy]
      BY <1>5, <2>4, Order, Tables
    <3>2. r = [keys |-> s.keys, policies |-> policy, models |-> s.models, endpoints |-> s.endpoints]
      BY <2>1, <3>1
    <3>3. s.policies = None
      BY <1>3, <2>4, Order
    <3>. QED
      BY <1>4, <2>2, <3>2, <3>3 DEF SnapshotOK
  <2>5. CASE i = 3
    <3>1. r = [s EXCEPT !.models = catalog]
      BY <1>5, <2>5, Order, Tables
    <3>2. r = [keys |-> s.keys, policies |-> s.policies, models |-> catalog, endpoints |-> s.endpoints]
      BY <2>1, <3>1
    <3>. QED
      BY <1>4, <2>2, <3>2 DEF SnapshotOK
  <2>6. CASE i = 4
    <3>1. r = [s EXCEPT !.endpoints = endpoints]
      BY <1>5, <2>6, Order, Tables
    <3>2. r = [keys |-> s.keys, policies |-> s.policies, models |-> s.models, endpoints |-> endpoints]
      BY <2>1, <3>1
    <3>3. s.policies # None
      BY <1>3, <2>6, Order
    <3>. QED
      BY <1>4, <3>2, <3>3 DEF SnapshotOK
  <2>. QED
    BY <1>3, <2>3, <2>4, <2>5, <2>6
<1>8. PICK t : t = installed[g]
  OBVIOUS
<1>9. /\ UNCHANGED <<tables, operators>> /\ installed' = [installed EXCEPT ![g] = t]
      /\ SnapshotOK(t, history, endpoints, prices) /\ (t # Unread => Complete(t))
  BY <1>8 DEF ReadTable, IInv, GatewaysOK
<1>. QED
  BY <1>6, <1>7, <1>9, GatewayStep

-----------------------------------------------------------------------------
\* The invariant holds at the start.
LEMMA InitIInv == Init => IInv
<1> SUFFICES ASSUME Init PROVE IInv
  OBVIOUS
<1>1. EndpointsOK /\ CatalogOK /\ PricesOK
  BY RoutingAssumption DEF Init, EndpointsOK, CatalogOK, PricesOK, Priced
<1>2. Len(history) = 0 /\ HistoryOK
  <2>1. history \in Seq({}) /\ Len(history) = 0
    BY DEF Init
  <2>. QED
    BY <2>1 DEF HistoryOK
<1>3. PolicyOK
  BY <1>2 DEF Init, PolicyOK, Told
<1>4. OperatorsOK
  BY DEF Init, OperatorsOK, Planned, Idle
<1>5. GatewaysOK
  BY UnreadIsOK DEF Init, GatewaysOK
<1>. QED
  BY <1>1, <1>2, <1>3, <1>4, <1>5 DEF IInv

\* Every step keeps it.
LEMMA StepIInv == IInv /\ [Next]_vars => IInv'
<1> SUFFICES ASSUME IInv, [Next]_vars PROVE IInv'
  OBVIOUS
<1>1. CASE BootstrapCatalog
  BY <1>1, BootstrapKeeps
<1>2. CASE \E offer \in Offers : PutModel(offer)
  BY <1>2, PutModelKeeps
<1>3. CASE \E r \in Registrations : PutServingEndpoint(r[1], r[2])
  BY <1>3, PutEndpointKeeps
<1>4. CASE \E k \in Keys : IssueKey(k) \/ RevokeKey(k)
  BY <1>4, KeysKeep
<1>5. CASE \E o \in Operators : BeginChange(o) \/ CommitChange(o)
  BY <1>5, BeginChangeKeeps, CommitChangeKeeps
<1>6. CASE \E g \in Gateways : ReadTable(g)
  BY <1>6, ReadTableKeeps
<1>7. CASE \E g \in Gateways : Install(g) \/ Refuse(g) \/ LoseSnapshot(g) \/ RestartGateway(g)
  BY <1>7, SnapshotStepsKeep
<1>8. CASE UNCHANGED vars
  <2>1. UNCHANGED <<catalog, prices, endpoints, policy, history, operators, reading, installed>>
    BY <1>8 DEF vars
  <2>. QED
    BY <2>1, TablesStay, OperatorsGrow, GatewaysGrow DEF IInv
<1>. QED
  BY <1>1, <1>2, <1>3, <1>4, <1>5, <1>6, <1>7, <1>8 DEF Next

\* It always holds.
LEMMA Inductive == Spec => []IInv
  BY InitIInv, StepIInv, PTL DEF Spec

\* The history explains the current policy (HistoryExplains), for any
\* operators whose reads and writes interleave: a pause or a promotion was
\* made from exactly the revision before it and a rollback restores an
\* earlier one.
THEOREM HistoryCorrect == Spec => []HistoryExplains
<1>1. ASSUME IInv PROVE HistoryExplains
  <2>1. policy.revision = Len(history) /\ Len(history) \in Nat /\ DOMAIN history = 1 .. Len(history)
    BY <1>1, HistoryTypes DEF IInv, PolicyOK
  <2>2. history # <<>> => policy.spec = history[Len(history)].spec
    <3>1. history # <<>> => Len(history) > 0
      BY <1>1, <2>1 DEF IInv, HistoryOK
    <3>. QED
      BY <1>1, <2>1, <3>1 DEF IInv, PolicyOK, Told
  <2>3. ASSUME NEW v \in DOMAIN history
        PROVE  CASE history[v].op = "pause"    -> v > 1 /\ history[v].spec = Pause(history[v - 1].spec)
                 [] history[v].op = "promote"  -> v > 1 /\ history[v].spec = Promote(history[v - 1].spec)
                 [] history[v].op = "rollback" -> \E w \in 1 .. v - 2 : history[v].spec = history[w].spec
                 [] OTHER -> TRUE
    <3>1. Explained(history[v].op, history[v].spec, v, history)
      BY <1>1, <2>1 DEF IInv, HistoryOK
    <3>2. /\ history[v].op = "pause" => v > 1 /\ history[v].spec = Pause(history[v - 1].spec)
          /\ history[v].op = "promote" => v > 1 /\ history[v].spec = Promote(history[v - 1].spec)
          /\ history[v].op = "rollback" => \E w \in 1 .. v - 2 : history[v].spec = history[w].spec
      BY <3>1 DEF Explained
    <3>. QED
      BY <3>2, Zenon
  <2>. QED
    BY <2>1, <2>2, <2>3 DEF HistoryExplains
<1>. QED
  BY <1>1, Inductive, PTL

\* A gateway that routes by a paused policy never selects the canary, and
\* reports the revision that chose (PausedMeansStable).
THEOREM PausesCorrect == Spec => []PausedMeansStable
<1>1. ASSUME IInv PROVE PausedMeansStable
  <2> SUFFICES ASSUME NEW g \in Gateways, NEW p, p = installed[g].policies, p # None,
                      p.revision > 0
               PROVE  /\ p.spec = history[p.revision].spec
                      /\ history[p.revision].op = "pause" =>
                           \A cohorts \in SUBSET Cohorts, roll \in {0, 50, 99} :
                             Select(p.spec, cohorts, roll) = p.spec.stable
    BY DEF PausedMeansStable
  <2>1. Told(p, history)
    BY <1>1 DEF IInv, GatewaysOK, SnapshotOK
  <2>2. PICK v : v = p.revision
    OBVIOUS
  <2>3. v \in 1 .. Len(history) /\ Len(history) \in Nat /\ p.spec = history[v].spec
    BY <1>1, <2>1, <2>2, HistoryTypes DEF Told, IInv
  <2>4. ASSUME history[v].op = "pause", NEW cohorts \in SUBSET Cohorts, NEW roll \in {0, 50, 99}
        PROVE  Select(p.spec, cohorts, roll) = p.spec.stable
    <3>1. Explained(history[v].op, history[v].spec, v, history)
      BY <1>1, <2>3 DEF IInv, HistoryOK
    <3>2. v > 1 /\ history[v].spec = Pause(history[v - 1].spec)
      BY <2>4, <3>1 DEF Explained
    <3>3. v - 1 \in 1 .. Len(history)
      BY <2>3, <3>2
    <3>4. IsSpec(history[v - 1].spec)
      BY <1>1, <3>3 DEF IInv, HistoryOK
    <3>. QED
      BY <2>3, <3>2, <3>4, PausedSelectsStable
  <2>. QED
    BY <2>2, <2>3, <2>4
<1>. QED
  BY <1>1, Inductive, PTL

\* To whatever an installed policy selects, the same snapshot forwards the
\* request's model, although its tables were read at different times and
\* unless a start-up pool's name was registered for another model
\* (PolicyIsServable).
THEOREM ServableCorrect == Spec => []PolicyIsServable
<1>1. ASSUME IInv PROVE PolicyIsServable
  <2> SUFFICES ASSUME NEW g \in Gateways, NEW s, s = installed[g], s # Unread,
                      s.policies.revision > 0,
                      NEW cohorts \in SUBSET Cohorts, NEW roll \in {0, 50, 99},
                      NEW p, p = Select(s.policies.spec, cohorts, roll)
               PROVE  Forwards(s, p, Routed) \/ Rebound(s, p)
    BY DEF PolicyIsServable
  <2>1. SnapshotOK(s, history, endpoints, prices) /\ Complete(s)
    BY <1>1 DEF IInv, GatewaysOK
  <2>2. IsSpec(s.policies.spec) /\ Fits(s.policies.spec, s.endpoints)
    BY <1>1, <2>1, ToldSpec DEF SnapshotOK, Complete, IInv
  <2>3. \/ s.endpoints[p].generation > 0 /\ s.endpoints[p].model = Routed
        \/ p \in DOMAIN Bootstrap /\ Bootstrap[p] = Routed
    BY <2>2, SelectsAPool DEF Fits
  <2>. QED
    BY <2>3 DEF Rebound, Forwards
<1>. QED
  BY <1>1, Inductive, PTL

\* A price version means one definition for ever, in the catalog and in
\* every snapshot that a gateway routes by, however old (PriceIsEvidence).
THEOREM PricesCorrect == Spec => []PriceIsEvidence
<1>1. ASSUME IInv PROVE PriceIsEvidence
  <2>1. ASSUME NEW m \in Models, catalog[m].revision > 0
        PROVE  prices[m][catalog[m].def.version] = catalog[m].def
    BY <1>1, <2>1 DEF IInv, CatalogOK, Priced
  <2>2. ASSUME NEW g \in Gateways, installed[g] # Unread, NEW m \in Models, Serves(installed[g], m)
        PROVE  prices[m][installed[g].models[m].def.version] = installed[g].models[m].def
    <3>1. Priced(installed[g].models, prices)
      BY <1>1, <2>2 DEF IInv, GatewaysOK, SnapshotOK, Complete
    <3>. QED
      BY <2>2, <3>1 DEF Priced, Serves
  <2>. QED
    BY <2>1, <2>2 DEF PriceIsEvidence
<1>. QED
  BY <1>1, Inductive, PTL

-----------------------------------------------------------------------------
(* GatewayAdmission.                                                        *)

\* The answers of the control plane.
Answers == {"none", "reserved", "rejected", "dispatched", "released", "settled",
            "waived", "conflict", "ok", "refused"}

\* The types.
Types ==
    /\ up \in BOOLEAN /\ draining \in BOOLEAN
    /\ caller \in [Requests -> Caller]
    /\ sent \in [Requests -> BOOLEAN]
    /\ cmd \in [Requests -> Cmd]
    /\ decision \in [Requests -> {"none", "rejected", "uncertain", "dispatched"}]
    /\ slot \in [Requests -> Slot]
    /\ event \in [Requests -> Reports \cup {"none"}]
    /\ net \in [Requests -> SUBSET (Calls \cup Reports)]
    /\ answer \in [Requests -> Answers]
    /\ central \in [Requests -> Central]

\* The command of a request is queued or being executed.
InFlight(r) == cmd[r] \in Calls \cup {"queued", "decided"}

\* The hold was dispatched, and nothing takes that back.
WasDispatched(r) == central[r].state \in {"dispatched", "settled", "waived"}

\* The control plane has what the event reported, or a final state of its own.
Recorded(r) ==
    \/ central[r] = [state |-> "settled", completion |-> "usage"]
    \/ /\ event[r] = "unresolved"
       /\ \/ central[r].completion = "missing"
          \/ central[r].state \in {"settled", "waived"}

\* Permit: whoever is under way holds the slot; once the caller has its answer
\* the command is over.
SlotKept(r) ==
    /\ (\/ caller[r] \in {"reading", "waiting", "answered", "admitted", "forwarded"}
        \/ InFlight(r)) => slot[r] = "held"
    /\ caller[r] = "new" => cmd[r] = "none" /\ slot[r] = "none"
    /\ caller[r] = "reading" => cmd[r] = "none"
    /\ caller[r] \in {"answered", "admitted", "forwarded"} => cmd[r] = "over"
    /\ slot[r] \in {"event", "busy"} => event[r] \in Reports

\* Protocol::admit: each sign of a successful dispatch is one.
DispatchIsReal(r) ==
    /\ cmd[r] = "dispatch" /\ answer[r] = "dispatched" => WasDispatched(r)
    /\ decision[r] = "dispatched" => WasDispatched(r)
    /\ caller[r] \in {"answered", "admitted", "forwarded"} => WasDispatched(r)
    /\ sent[r] => WasDispatched(r)

\* A settlement, wherever it is, reports a forwarded body.
UsageIsReal(r) ==
    /\ caller[r] = "forwarded" => sent[r]
    /\ event[r] = "settle" => sent[r]
    /\ "settle" \in net[r] => sent[r]
    /\ central[r].completion = "usage" => sent[r]

\* Nobody finds the answer to a call of before, and a good one is recorded.
AnswerIsReal(r) ==
    /\ slot[r] \in {"none", "held", "event"} /\ cmd[r] \notin Calls => answer[r] = "none"
    /\ slot[r] = "busy" /\ answer[r] = "ok" => Recorded(r)
    /\ slot[r] = "acked" => Recorded(r)

\* All that is said of one request.
Sound(r) == SlotKept(r) /\ DispatchIsReal(r) /\ UsageIsReal(r) /\ AnswerIsReal(r)

\* The inductive invariant of the admission.
AdmissionIInv == Types /\ \A r \in Requests : Sound(r)

-----------------------------------------------------------------------------
(* The control plane.                                                      *)

\* What a call may do to a hold: it keeps its type, a dispatched one stays
\* dispatched, a recorded one recorded, and each good answer tells the truth.
LEMMA OutcomeIsSound ==
  ASSUME NEW h \in Central, NEW call \in Calls \cup Reports, NEW o \in Outcomes(call, h)
  PROVE  /\ o[1] \in Central /\ o[2] \in Answers
         /\ h.state \in {"dispatched", "settled", "waived"} =>
              o[1].state \in {"dispatched", "settled", "waived"}
         /\ h.completion = "missing" =>
              o[1].completion = "missing" \/ o[1].state = "settled"
         /\ h.state \in {"settled", "waived"} => o[1] = h
         /\ call = "dispatch" /\ o[2] = "dispatched" => o[1].state = "dispatched"
         /\ o[1].completion = "usage" => h.completion = "usage" \/ call = "settle"
         /\ call = "settle" /\ o[2] = "ok" =>
              o[1] = [state |-> "settled", completion |-> "usage"]
         /\ call = "unresolved" /\ o[2] = "ok" =>
              o[1].completion = "missing" \/ o[1].state \in {"settled", "waived"}
<1> USE DEF Calls, Reports, Central, Answers
<1>1. CASE call \in {"reserve", "rereserve"}
  BY <1>1 DEF Outcomes, ReserveOutcomes, Move
<1>2. CASE call = "dispatch"
  BY <1>2 DEF Outcomes, DispatchOutcomes, Move
<1>3. CASE call = "release"
  BY <1>3 DEF Outcomes, ReleaseOutcomes, Move
<1>4. CASE call = "settle"
  BY <1>4 DEF Outcomes, SettleOutcomes
<1>5. CASE call = "unresolved"
  BY <1>5 DEF Outcomes, UnresolvedOutcomes
<1>. QED
  BY <1>1, <1>2, <1>3, <1>4, <1>5

-----------------------------------------------------------------------------
(* The invariant.                                                          *)

\* The initial states satisfy the invariant.
LEMMA AdmissionInitIInv == AdmissionInit => AdmissionIInv
<1> SUFFICES ASSUME AdmissionInit
             PROVE  AdmissionIInv
  OBVIOUS
<1>1. NoHold \in Central
  BY DEF NoHold, Central
<1>2. Types
  BY <1>1 DEF AdmissionInit, Types, Caller, Cmd, Slot,
     Calls, Reports, Answers
<1>3. ASSUME NEW r \in Requests
      PROVE  Sound(r)
  BY DEF AdmissionInit, NoHold, Calls, Reports,
         Sound, SlotKept, DispatchIsReal, UsageIsReal, AnswerIsReal, InFlight, WasDispatched
<1>. QED
  BY <1>2, <1>3 DEF AdmissionIInv

\* What a step of the admission worker may touch keeps its type: the parts of
\* OnAnswer, and with them Protocol::admit and Protocol::recover.
WorkerTypes ==
    /\ cmd \in [Requests -> Cmd]
    /\ decision \in [Requests -> {"none", "rejected", "uncertain", "dispatched"}]
    /\ slot \in [Requests -> Slot]
    /\ net \in [Requests -> SUBSET (Calls \cup Reports)]

\* A call sent by a command keeps the types.
LEMMA CallTypes ==
  ASSUME Types, NEW r \in Requests, NEW c \in Calls, Call(r, c)
  PROVE  WorkerTypes'
<1>1. net[r] \cup {c} \in SUBSET (Calls \cup Reports)
  BY DEF Types
<1>2. net' \in [Requests -> SUBSET (Calls \cup Reports)]
  BY <1>1 DEF Types, Call
<1>. QED
  BY <1>2 DEF Types, WorkerTypes, Call, Cmd

\* A decision told to the request keeps the types.
LEMMA DecideTypes ==
  ASSUME Types, NEW r \in Requests, NEW d \in {"rejected", "uncertain", "dispatched"},
         Decide(r, d)
  PROVE  WorkerTypes'
  BY DEF Types, WorkerTypes, Decide, Cmd

\* A command that ends keeps the types.
LEMMA EndCommandTypes ==
  ASSUME Types, NEW r \in Requests, EndCommand(r)
  PROVE  WorkerTypes'
  BY DEF Types, WorkerTypes, EndCommand, CommandDrops, Cmd,
     Slot

\* A command that takes an answer keeps the types.
LEMMA OnAnswerTypes ==
  ASSUME Types, NEW r \in Requests, NEW a, OnAnswer(r, a)
  PROVE  WorkerTypes'
<1>1. CASE \E c \in Calls : Call(r, c)
  BY <1>1, CallTypes
<1>2. CASE \E d \in {"rejected", "uncertain", "dispatched"} : Decide(r, d)
  BY <1>2, DecideTypes
<1>3. CASE EndCommand(r)
  BY <1>3, EndCommandTypes
<1>. QED
  BY <1>1, <1>2, <1>3 DEF OnAnswer, OnReserve, OnDispatch,
     OnRereserve, Calls

\* Every step of gateway and control plane keeps the inductive invariant.
LEMMA AdmissionStepIInv == AdmissionIInv /\ [AdmissionNext]_admissionVars => AdmissionIInv'
<1> SUFFICES ASSUME AdmissionIInv, [AdmissionNext]_admissionVars
             PROVE  AdmissionIInv'
  OBVIOUS
<1>0. Types /\ \A q \in Requests : Sound(q)
  BY DEF AdmissionIInv
<1> USE DEF Caller, Cmd, Slot, Calls, Reports, Answers, Central
<1>1. ASSUME NEW r \in Requests, Start(r)
      PROVE  AdmissionIInv'
  <2>1. Types'
    BY <1>0, <1>1 DEF Start, Types
  <2>2. ASSUME NEW q \in Requests
        PROVE  Sound(q)'
    BY <1>0, <1>1 DEF Start, Types,
           Sound, SlotKept, DispatchIsReal, UsageIsReal, AnswerIsReal,
           InFlight, Recorded, WasDispatched
  <2>. QED
    BY <2>1, <2>2 DEF AdmissionIInv
<1>1a. ASSUME NEW r \in Requests, Enqueue(r)
      PROVE  AdmissionIInv'
  <2>1. Types'
    BY <1>0, <1>1a DEF Enqueue, Types
  <2>2. ASSUME NEW q \in Requests
        PROVE  Sound(q)'
    BY <1>0, <1>1a DEF Enqueue, Types,
           Sound, SlotKept, DispatchIsReal, UsageIsReal, AnswerIsReal,
           InFlight, Recorded, WasDispatched
  <2>. QED
    BY <2>1, <2>2 DEF AdmissionIInv
<1>2. ASSUME NEW r \in Requests, GiveUp(r)
      PROVE  AdmissionIInv'
  <2>1. Types'
    BY <1>0, <1>2 DEF GiveUp, CallerDrops, Types
  <2>2. ASSUME NEW q \in Requests
        PROVE  Sound(q)'
    BY <1>0, <1>2 DEF GiveUp, CallerDrops, Types,
           Sound, SlotKept, DispatchIsReal, UsageIsReal, AnswerIsReal,
           InFlight, Recorded, WasDispatched
  <2>. QED
    BY <2>1, <2>2 DEF AdmissionIInv
<1>3. ASSUME NEW r \in Requests, Admitted(r)
      PROVE  AdmissionIInv'
  <2>1. Types'
    BY <1>0, <1>3 DEF Admitted, Types
  <2>2. ASSUME NEW q \in Requests
        PROVE  Sound(q)'
    BY <1>0, <1>3 DEF Admitted, Types,
           Sound, SlotKept, DispatchIsReal, UsageIsReal, AnswerIsReal,
           InFlight, Recorded, WasDispatched
  <2>. QED
    BY <2>1, <2>2 DEF AdmissionIInv
<1>4. ASSUME NEW r \in Requests, Forward(r)
      PROVE  AdmissionIInv'
  <2>1. Types'
    BY <1>0, <1>4 DEF Forward, Types
  <2>2. ASSUME NEW q \in Requests
        PROVE  Sound(q)'
    BY <1>0, <1>4 DEF Forward, Types,
           Sound, SlotKept, DispatchIsReal, UsageIsReal, AnswerIsReal,
           InFlight, Recorded, WasDispatched
  <2>. QED
    BY <2>1, <2>2 DEF AdmissionIInv
<1>5. ASSUME NEW r \in Requests, Finish(r)
      PROVE  AdmissionIInv'
  <2>1. Types'
    BY <1>0, <1>5 DEF Finish, Types
  <2>2. ASSUME NEW q \in Requests
        PROVE  Sound(q)'
    BY <1>0, <1>5 DEF Finish, Types,
           Sound, SlotKept, DispatchIsReal, UsageIsReal, AnswerIsReal,
           InFlight, Recorded, WasDispatched
  <2>. QED
    BY <2>1, <2>2 DEF AdmissionIInv
<1>6. ASSUME NEW r \in Requests, Dequeue(r)
      PROVE  AdmissionIInv'
  <2>w. WorkerTypes'
    BY <1>0, <1>6, CallTypes, EndCommandTypes DEF Dequeue
  <2>1. Types'
    BY <1>0, <1>6, <2>w DEF Dequeue, Types, WorkerTypes
  <2>2. ASSUME NEW q \in Requests
        PROVE  Sound(q)'
    BY <1>0, <1>6 DEF Dequeue, Call, EndCommand,
       CommandDrops, Types,
           Sound, SlotKept, DispatchIsReal, UsageIsReal, AnswerIsReal,
           InFlight, Recorded, WasDispatched
  <2>. QED
    BY <2>1, <2>2 DEF AdmissionIInv
<1>7. ASSUME NEW r \in Requests, Receive(r)
      PROVE  AdmissionIInv'
  <2>w. WorkerTypes'
    BY <1>0, <1>7, OnAnswerTypes DEF Receive
  <2>1. Types'
    BY <1>0, <1>7, <2>w DEF Receive, Types, WorkerTypes
  <2>2. ASSUME NEW q \in Requests
        PROVE  Sound(q)'
    BY <1>0, <1>7 DEF Receive, OnAnswer, OnReserve,
       OnDispatch, OnRereserve, Call, Decide,
           EndCommand, CommandDrops, Types,
           Sound, SlotKept, DispatchIsReal, UsageIsReal, AnswerIsReal,
           InFlight, Recorded, WasDispatched
  <2>. QED
    BY <2>1, <2>2 DEF AdmissionIInv
<1>8. ASSUME NEW r \in Requests, Timeout(r)
      PROVE  AdmissionIInv'
  <2>w. WorkerTypes'
    BY <1>0, <1>8, OnAnswerTypes DEF Timeout
  <2>1. Types'
    BY <1>0, <1>8, <2>w DEF Timeout, Types, WorkerTypes
  <2>2. ASSUME NEW q \in Requests
        PROVE  Sound(q)'
    BY <1>0, <1>8 DEF Timeout, OnAnswer, OnReserve,
       OnDispatch, OnRereserve, Call, Decide,
           EndCommand, CommandDrops, Types,
           Sound, SlotKept, DispatchIsReal, UsageIsReal, AnswerIsReal,
           InFlight, Recorded, WasDispatched
  <2>. QED
    BY <2>1, <2>2 DEF AdmissionIInv
<1>9. ASSUME NEW r \in Requests, Reply(r)
      PROVE  AdmissionIInv'
  <2>w. WorkerTypes'
    <3>1. CASE Call(r, "rereserve")
      BY <1>0, <3>1, CallTypes
    <3>2. CASE ~Call(r, "rereserve")
      BY <1>0, <1>9, <3>2 DEF Reply, CommandDrops, Types, WorkerTypes
    <3>. QED
      BY <3>1, <3>2
  <2>1. Types'
    BY <1>0, <1>9, <2>w DEF Reply, Types, WorkerTypes
  <2>2. ASSUME NEW q \in Requests
        PROVE  Sound(q)'
    BY <1>0, <1>9 DEF Reply, Call, CommandDrops, Types,
           Sound, SlotKept, DispatchIsReal, UsageIsReal, AnswerIsReal,
           InFlight, Recorded, WasDispatched
  <2>. QED
    BY <2>1, <2>2 DEF AdmissionIInv
<1>10. ASSUME NEW r \in Requests, Send(r)
      PROVE  AdmissionIInv'
  <2>w. event[r] \in Reports
    BY <1>0, <1>10 DEF Send, Sound, SlotKept
  <2>n. net[r] \cup {event[r]} \in SUBSET (Calls \cup Reports)
    BY <1>0, <2>w DEF Types
  <2>1. Types'
    BY <1>0, <1>10, <2>n DEF Send, Types
  <2>2. ASSUME NEW q \in Requests
        PROVE  Sound(q)'
    BY <1>0, <1>10 DEF Send, Types,
           Sound, SlotKept, DispatchIsReal, UsageIsReal, AnswerIsReal,
           InFlight, Recorded, WasDispatched
  <2>. QED
    BY <2>1, <2>2 DEF AdmissionIInv
<1>11. ASSUME NEW r \in Requests, Delivered(r)
      PROVE  AdmissionIInv'
  <2>1. Types'
    BY <1>0, <1>11 DEF Delivered, Disposition, Types
  <2>2. ASSUME NEW q \in Requests
        PROVE  Sound(q)'
    BY <1>0, <1>11 DEF Delivered, Disposition, Types,
           Sound, SlotKept, DispatchIsReal, UsageIsReal, AnswerIsReal,
           InFlight, Recorded, WasDispatched
  <2>. QED
    BY <2>1, <2>2 DEF AdmissionIInv
<1>12. ASSUME NEW r \in Requests, Retry(r)
      PROVE  AdmissionIInv'
  <2>1. Types'
    BY <1>0, <1>12 DEF Retry, Types
  <2>2. ASSUME NEW q \in Requests
        PROVE  Sound(q)'
    BY <1>0, <1>12 DEF Retry, Types,
           Sound, SlotKept, DispatchIsReal, UsageIsReal, AnswerIsReal,
           InFlight, Recorded, WasDispatched
  <2>. QED
    BY <2>1, <2>2 DEF AdmissionIInv
<1>13. ASSUME NEW r \in Requests, Misconfigured(r)
      PROVE  AdmissionIInv'
  <2>1. Types'
    BY <1>0, <1>13 DEF Misconfigured, Types
  <2>2. ASSUME NEW q \in Requests
        PROVE  Sound(q)'
    BY <1>0, <1>13 DEF Misconfigured, Types,
           Sound, SlotKept, DispatchIsReal, UsageIsReal, AnswerIsReal,
           InFlight, Recorded, WasDispatched
  <2>. QED
    BY <2>1, <2>2 DEF AdmissionIInv
<1>14. ASSUME NEW r \in Requests, Review(r)
      PROVE  AdmissionIInv'
  <2>0. /\ [central[r] EXCEPT !.state = "waived"] \in Central
        /\ [state |-> "settled", completion |-> "evidence"] \in Central
    BY <1>0 DEF Types
  <2>1. Types'
    BY <1>0, <1>14, <2>0 DEF Review, Move, Types
  <2>2. ASSUME NEW q \in Requests
        PROVE  Sound(q)'
    BY <1>0, <1>14 DEF Review, Move, Types,
           Sound, SlotKept, DispatchIsReal, UsageIsReal, AnswerIsReal,
           InFlight, Recorded, WasDispatched
  <2>. QED
    BY <2>1, <2>2 DEF AdmissionIInv
<1>15. ASSUME NEW r \in Requests, NEW call \in net[r], Execute(r, call)
       PROVE  AdmissionIInv'
  <2>1. central[r] \in Central /\ call \in Calls \cup Reports
    BY <1>0, <1>15 DEF Types
  <2>2. PICK o \in Outcomes(call, central[r]) :
          /\ central' = [central EXCEPT ![r] = o[1]]
          /\ answer' = [answer EXCEPT ![r] =
                 IF cmd[r] = call \/ (slot[r] = "busy" /\ event[r] = call)
                 THEN o[2] ELSE @]
    BY <1>15 DEF Execute
  <2>3. net' = [net EXCEPT ![r] = @ \ {call}]
        /\ UNCHANGED <<up, draining, caller, sent, cmd, decision, slot, event>>
    BY <1>15 DEF Execute
  <2> DEFINE h == central[r]
             k == o[1]
  <2>4. /\ k \in Central /\ o[2] \in Answers
        /\ h.state \in {"dispatched", "settled", "waived"} =>
             k.state \in {"dispatched", "settled", "waived"}
        /\ h.completion = "missing" => k.completion = "missing" \/ k.state = "settled"
        /\ h.state \in {"settled", "waived"} => k = h
        /\ call = "dispatch" /\ o[2] = "dispatched" => k.state = "dispatched"
        /\ k.completion = "usage" => h.completion = "usage" \/ call = "settle"
        /\ call = "settle" /\ o[2] = "ok" =>
             k = [state |-> "settled", completion |-> "usage"]
        /\ call = "unresolved" /\ o[2] = "ok" =>
             k.completion = "missing" \/ k.state \in {"settled", "waived"}
    BY <2>1, OutcomeIsSound
  <2>5. net[r] \ {call} \in SUBSET (Calls \cup Reports)
    BY <1>0 DEF Types
  <2>6. Types'
    BY <1>0, <2>2, <2>3, <2>4, <2>5 DEF Types
  <2>7. central'[r] = k
    BY <1>0, <2>2 DEF Types
  <2>8. \A q \in Requests \ {r} : central'[q] = central[q] /\ answer'[q] = answer[q] /\ net'[q] = net[q]
    BY <1>0, <2>2, <2>3 DEF Types
  <2>9. answer'[r] = IF cmd[r] = call \/ (slot[r] = "busy" /\ event[r] = call)
                     THEN o[2] ELSE answer[r]
    BY <1>0, <2>2 DEF Types
  <2>10. net'[r] = net[r] \ {call}
    BY <1>0, <2>3 DEF Types
  <2> HIDE DEF h, k
  <2>11. Sound(r)'
    <3>0. Sound(r)
      BY <1>0
    <3>1. SlotKept(r)'
      BY <3>0, <2>3 DEF Sound, SlotKept, InFlight
    <3>2. DispatchIsReal(r)'
      BY <3>0, <2>3, <2>4, <2>7, <2>9 DEF h, Sound, SlotKept, DispatchIsReal, WasDispatched,
             InFlight
    <3>3. UsageIsReal(r)'
      BY <3>0, <2>3, <2>4, <2>7, <2>10 DEF h, Sound, UsageIsReal
    <3>4. Recorded(r) => Recorded(r)'
      BY <2>3, <2>4, <2>7 DEF h, Recorded
    <3>5. ASSUME slot[r] = "busy", event[r] = call, o[2] = "ok"
          PROVE  Recorded(r)'
      BY <3>5, <3>0, <2>3, <2>4, <2>7 DEF Sound, SlotKept, Recorded
    <3>6. AnswerIsReal(r)'
      <4>0. cmd[r] = call => cmd[r] \in Calls
        BY <1>0, <2>1 DEF Types
      <4>1. slot[r] \in {"none", "held", "event"} /\ cmd[r] \notin Calls => answer'[r] = "none"
        BY <3>0, <2>9, <4>0 DEF Sound, AnswerIsReal
      <4>2. slot[r] = "busy" => cmd[r] \notin Calls
        BY <3>0 DEF Sound, SlotKept, InFlight
      <4>3. slot[r] = "busy" /\ answer'[r] = "ok" => Recorded(r)'
        <5>1. CASE cmd[r] = call
          BY <5>1, <4>0, <4>2
        <5>2. CASE cmd[r] # call /\ event[r] = call
          BY <5>2, <2>9, <3>4, <3>5, <3>0 DEF Sound, AnswerIsReal
        <5>3. CASE cmd[r] # call /\ event[r] # call
          BY <5>3, <2>9, <3>4, <3>0 DEF Sound, AnswerIsReal
        <5>. QED
          BY <5>1, <5>2, <5>3
      <4>4. slot[r] = "acked" => Recorded(r)'
        BY <3>0, <3>4 DEF Sound, AnswerIsReal
      <4>. QED
        BY <4>1, <4>3, <4>4, <2>3 DEF AnswerIsReal
    <3>. QED
      BY <3>1, <3>2, <3>3, <3>6 DEF Sound
  <2>12. ASSUME NEW q \in Requests \ {r}
         PROVE  Sound(q)'
    BY <1>0, <2>3, <2>8 DEF Sound, SlotKept, DispatchIsReal, UsageIsReal, AnswerIsReal,
           InFlight, Recorded, WasDispatched
  <2>. QED
    BY <2>6, <2>11, <2>12 DEF AdmissionIInv
<1>16. CASE BeginDrain
  BY <1>0, <1>16 DEF BeginDrain, AdmissionIInv, Types, Sound, SlotKept,
     DispatchIsReal, UsageIsReal, AnswerIsReal,
           InFlight, Recorded, WasDispatched
<1>17. CASE Stop
  <2>1. Types'
    BY <1>0, <1>17 DEF Stop, Types
  <2>2. ASSUME NEW q \in Requests
        PROVE  Sound(q)'
    BY <1>0, <1>17 DEF Stop, Types, Sound, SlotKept, DispatchIsReal,
       UsageIsReal, AnswerIsReal,
           InFlight, Recorded, WasDispatched
  <2>. QED
    BY <2>1, <2>2 DEF AdmissionIInv
<1>18. CASE UNCHANGED admissionVars
  BY <1>0, <1>18 DEF admissionVars, AdmissionIInv, Types, Sound, SlotKept,
     DispatchIsReal, UsageIsReal, AnswerIsReal,
           InFlight, Recorded, WasDispatched
<1>. QED
  BY <1>1, <1>1a, <1>2, <1>3, <1>4, <1>5, <1>6, <1>7, <1>8, <1>9, <1>10, <1>11, <1>12,
     <1>13, <1>14, <1>15, <1>16, <1>17, <1>18 DEF AdmissionNext, Future, Worker, Delivery

\* The inductive invariant holds in every reachable state.
LEMMA AdmissionInductive == AdmissionSpec => []AdmissionIInv
  BY AdmissionInitIInv, AdmissionStepIInv, PTL DEF AdmissionSpec

-----------------------------------------------------------------------------
(* The results.                                                            *)

\* Protocol::admit against Protocol::recover (gateway billing.rs), with calls
\* executed late and answers lost: a forwarded body always has a hold that was
\* dispatched and not released, and usage is only charged for a forwarded body.
THEOREM MoneyCorrect == AdmissionSpec => []MoneyFollowsInference
<1>1. AdmissionIInv => MoneyFollowsInference
  BY DEF AdmissionIInv, MoneyFollowsInference, Sound, DispatchIsReal,
     UsageIsReal, WasDispatched
<1>. QED
  BY <1>1, AdmissionInductive, PTL

\* Permit (delivery.rs): a request or command under way has its slot, whichever
\* of the two lets go first, so that logging can always submit its event.
THEOREM SlotsCorrect == AdmissionSpec => []WorkHasSlot
<1>1. AdmissionIInv => WorkHasSlot
  BY DEF AdmissionIInv, WorkHasSlot, Sound, SlotKept, InFlight
<1>. QED
  BY <1>1, AdmissionInductive, PTL

\* `deliver` and the retry loop (usage.rs): an event leaves the queue as
\* delivered only when the control plane has recorded it, however often it was
\* sent and whatever two reviewers decided about the hold meanwhile.
THEOREM DeliveryCorrect == AdmissionSpec => []DeliveredIsRecorded
<1>1. AdmissionIInv => DeliveredIsRecorded
  BY DEF AdmissionIInv, DeliveredIsRecorded, Sound, AnswerIsReal, Recorded
<1>. QED
  BY <1>1, AdmissionInductive, PTL

=============================================================================
