# xscope in TLA+

xscope is a multi-tenant serving platform for inference: a gateway in Rust that
authenticates, admits, meters and proxies requests; a control plane in Rust that
keeps money, routes, clusters and capacity in one PostgreSQL database; member
clusters with a pull agent and an operator; and a web console. This directory
holds TLA+ models of the parts whose correctness depends on ordering, failure
and concurrency, the TLC runs that check them on small instances, and proofs
checked by TLAPS. Paths below are relative to `src/rust/crates/`.

Run things from this directory: `tlc -config MCBilling_paths.cfg MCBilling`
checks a run, `tlapm BillingProofs.tla` checks the proofs of a component.
`PROJECT.json` lists the runs, the theorems, the source lines behind every
definition, the hazards and the faulty variants.

## 1. Inventory

| Component | State it keeps | Operations | Interacts with |
|---|---|---|---|
| Money protocol: `control-plane/src/billing.rs`, `billing_projection.rs`, postings of `repository.rs` | reservations, usage events, ledger, three projections, outbox | reserve, dispatch, release, unresolved, settle, v1 usage, credit, debit, rebuild | called by the gateway and by payments, under the account row lock |
| Billing reviews: `billing_review.rs` | reviews, audit trail | submit, approve, reject | changes reservations and settles |
| Event worker: `event_worker.rs` | one job row per account, effects | schedule, claim, complete, fail, retry | woken by every financial transaction |
| Billing feed: `billing_feed.rs` | one cursor row per consumer and account | poll, acknowledge, pending list | external consumers over HTTP |
| Gateway admission and usage delivery: `gateway/src/billing.rs`, `usage.rs`, `delivery.rs` | admission channel, usage queue, request context | begin, admit, recover, submit, deliver, drain | calls the money protocol over HTTP with deadlines |
| Alipay: `payment_service.rs`, `refund_service.rs` | orders, checkouts, receipts, payments, refunds | checkout, accept evidence, prepare, submit and complete a refund | external provider; posts to the ledger |
| Identity and membership: `repository.rs`, `api.rs` | users, memberships | sync on every console request, change a role | console |
| Managed traffic: `managed_pools.rs`, `traffic.rs`, `gateway_proofs.rs`, `gateway/src/traffic.rs` | pools, generations, gateway sessions, grants | bind, transition, snapshot, report, observe, prove termination | gateways, member agents, autoscaling |
| Autoscaling: `scaling.rs` | scale operations | reconcile, drain, apply | managed traffic |
| Clusters: `clusters.rs`, `cluster-agent/src/pull.rs` | desired revisions, the delivery that is out, credentials; in the member cluster the ModelDeployments | put, poll, report, rotate, revoke, apply object by object | member clusters; managed traffic adds revisions |
| Operator: `kubernetes/src/`, `operator/src/main.rs` | the children of each ModelDeployment, its status | reconcile, switch the scaling writer | Kubernetes, KEDA; acts on what the agent applied |
| Quota: `gateway/src/quota.rs`, `auth.rs` | Redis hash per key and minute, or a window in the gateway | reserve, settle | Redis scripts, the proxy |
| Catalog, releases, routes: `catalog.rs`, `releases.rs`, `repository.rs`, `domain/src/routing.rs`, `gateway/src/auth.rs` | models, price versions, pools, policy and its history, the snapshot of each gateway | put, pause, promote, roll back, assemble and install a snapshot, select a pool | operators, gateways; settlement looks up prices |
| Console, web, telemetry, tools | none of their own | read and format | everything |

What is hard in this code, and where:

- **Two records of the same money.** Balances, holds and monthly spend are read
  from projections that are created lazily from history inside the transaction
  that changes history. A delta applied twice, or lost, or a row created after
  the change it should not contain, never shows in a test that starts empty.
- **A call with a deadline has three outcomes.** The gateway gives up on a
  reserve or dispatch that the control plane still executes. Its one recovery
  races the original call.
- **Leases and fences.** A worker whose lease ran out completes its batch after
  another worker claimed it.
- **An external party between two transactions.** The payment notification can
  overtake the answer of the checkout that caused it; a refund outcome can stay
  unknown.
- **Check and write apart.** The role change of a member is not a transaction.
- **Drain.** Capacity may be removed only after every gateway session that was
  ever granted the pool has acknowledged a later grant with nothing in flight, or
  is proved dead and the entry idle after its death; snapshots, reports and
  observations are lost, late and overtaken.

- **Commands repeated under one identity.** A quota command whose reply is lost is
  sent again, and the first one may be executed after the second, in a minute that
  is already over by the clock of Redis.
- **A revision applied object by object.** The agent can be paused, crash or lose
  its election between two writes, and a write it no longer waits for arrives
  later.
- **A decision on a stale read.** A release action reads policy and history before
  its transaction; a gateway's snapshot is assembled from several statements without a
  transaction.
- **Two scaling writers.** An old HPA, KEDA's HPA and the operator must not scale
  one workload at the same time while the operator switches between them.

Hazards, each at its line and with the property that would notice it, are in
`PROJECT.json`.

## 2. Modules

| Module | Models | Extends or instances |
|---|---|---|
| `Totals` | SQL sums of i64 amounts, without recursion | |
| `Billing` | money protocol and reviews of one account | `Totals` |
| `OrderedConsumption` | abstract: a log and a cursor that passes only what is processed | |
| `EventLog` | the event log of one account | |
| `EventWorker` | leased job of one account, its workers, the operator | `EventLog`; instances `OrderedConsumption` |
| `BillingFeed` | cursor of one external consumer with several replicas | `EventLog`; instances `OrderedConsumption` |
| `GatewayAdmission` | request future, admission threads, usage queue, delivery, and the holds of the control plane they act on | |
| `Payments` | Alipay top-up and refund of one project | `Totals` |
| `Membership` | sign-in and role change in a tenant | |
| `ManagedTraffic` | one managed pool: control plane, gateways, requests, member agent, scaling | |
| `Quota` | requests and tokens per minute of one API key: callers, quota workers, the two scripts | `Totals` |
| `ClusterDelivery` | delivery of desired revisions to one member cluster | |
| `Routing` | catalog, prices, pools, route policy with releases, keys, gateway snapshots | |
| `Operator` | reconciliation of one ModelDeployment | |
| `TotalsTheorems` | lemmas about sums over finite sets | `Totals` |
| `BillingProofs`, `PaymentsProofs`, `QuotaProofs`, `ManagedTrafficProofs` | theorems and proofs | the module of that name |
| `ConsumptionProofs` | theorems about the two consumers of the event log | `EventWorker`, `BillingFeed` |
| `GatewayProofs` | theorems about routes and admission at the gateways | `Routing`, `GatewayAdmission` |
| `MemberClusterProofs` | theorems about what happens in a member cluster | `ClusterDelivery`, `Operator` |
| `MC*` | instances for TLC | the module of that name |

A definition `X_Variant` beside `X` is a faulty form of `X`: the bug a reviewer
would fear there. `PROJECT.json` ("mutants") pairs every property of every
passing run with a variant that makes TLC report it. No action uses a variant.

### Billing

One account, since accounts share no row. Every handler that moves money takes the
account row lock first (`lock_account`) and holds it until COMMIT, which is why a
handler is one action: `ReserveMoney`, `DispatchMoney`, `ReleaseMoney`, `UnresolvedMoney`,
`SettleMoney`, `RecordUsage`, `PostCredit`, `PostRefund`, `SubmitReview`,
`RejectReview`, `ApproveWaiver`, `ApproveEvidence`, `ProjectionRebuild`, the two
reads that backfill (`ColdBalanceRead`, `ColdSpendRead`) and the changes of
context (`UpdateBalancePolicy`, `RevokeKey`, `PutModel`, `NextMonth`). Refused
requests roll back and replays commit nothing, so both stutter. Variables are the
tables: `resv`, `usage`, `ledger`, `review`, `audit`, `outbox`, and the
projections `account`, `keyHold`, `monthSpend` with an explicit `known` bit for
a row that does not exist yet. Reading a projection is `Account`, `KeyHold(k)`,
`Monthly(k, m)`: the row if it exists, else the sum over history, as
`billing_projection.rs` does. i64 arithmetic is checked arithmetic up to
`MaxAmount`. Token counts are pairs and a cost is counts times price, exactly as
`usage_cost_microunits` computes it (minor units per million tokens are
microunits per token). Rows listed in `Legacy` exist before the projections were
introduced (migration 000007), so the initial states contain history without
projection rows, on an account that is enforced already or is not.
`update_balance_policy` takes no lock: its UPDATE (`UpdateBalancePolicy`)
changes `enforce` alone, and the projection row that its answer reads is created
by a transaction of its own (`ColdBalanceRead`), with any handler in between.

### EventWorker

`job` is the row of `billing_jobs`, and each worker a small program counter:
idle, leased, past the unlocked duplicate check, failing. Time is what is left of
the lease and of the backoff, counted down by `Tick`. A lease token is a fresh
uuid and is modelled by the epoch it was drawn with. `Complete` has the outcome
in which the commit succeeds and its answer is lost: a worker over HTTP sends it
again, the worker in the process takes it for an error and goes on to
`fail_event_job` (`event_worker.rs` 513-521). `Crash` may hit a worker anywhere.

### BillingFeed

Both `poll` and `acknowledge` read the cursor without a lock, decide on that
read, then lock the row and decide again. Each is therefore two actions
(`PollRead`/`PollCommit`, `AckRead`/`AckCommit`), and replicas of one consumer
overtake each other in between. A replica that restarts forgets what it holds.

### GatewayAdmission

`caller` is the request future, `cmd` its command in the admission channel or on
an admission thread, `slot` its entry of the usage queue, `net` the calls sent
and not yet executed, `central` the hold in the control plane. A call may be
executed at any time after it was sent, also after its deadline (`Timeout`), and
its answer may be lost. A request takes its slot first (`Start`), reads its body and
only then puts its command into the channel (`Enqueue`); a body that is late or
invalid, a full channel, the deadline and a client that goes away all end in
`GiveUp`. The transitions of `central` are the outcomes that
`Billing` allows for the same call; refusals for reasons that the gateway does
not see (balance, budget, revoked key) are a nondeterministic refusal. The age
limit of a queued event is a nondeterministic loss: time is not modelled here.

### Payments

The provider is external and modelled as what the code can observe: a trade
moves through its states, every state it ever reported stays available as
verified evidence, and evidence arrives in any order, any number of times.
Signature checks and decimal parsing happen before a handler and are left out:
what does not verify changes nothing. `CheckoutBegin`, `Precreate` and
`CheckoutFinish` are the two transactions of checkout with the provider's part
between them, which may also come late. `Redeploy` changes the merchant profile.
Inference appears as `Hold`, `ReleaseHold` and `Charge` on the same balance. They
are not limited by what is available: an account is postpaid unless enforcement is
switched on, and only refunds must stay within its own money. The manual
`capture_payment` is refused by the API when Alipay is configured (`api.rs`
1262-1265) and `create_refund` refuses payments by Alipay (`repository.rs`
789-791). What they do to the ledger is `PostCredit` and `PostRefund` of `Billing`;
refunds of test payments left in a database that later got Alipay are not part of
this module.

### Membership

`sync_user` runs on every console request. `update_membership` reads the
membership, counts the owners and writes, as three statements without a
transaction, so it is `ReadMembership`, `CountOwners`, `WriteRole` after
`Authorize`.

### ManagedTraffic

One pool, since pools share only the session rows. `pool`, `session`, `view` and
`cluster` are the rows of `managed_pool`, `gateway_session`, `gateway_pool_view`
and `member_cluster`; `gate` is the `Traffic` state of each gateway process,
`reply` and `post` what is on the wire between the two, `req` the requests with
who still accounts for them, `obs`, `proof` and `scrape` what the member agent
has found out, `runtime` the member cluster. The actions are the handlers
(`TrafficSnapshot`, `TrafficReport`, `BindPool`, `Drain`, `FinishDrain`,
`Activate`, `PutUnchanged` and `PutMutation` for a revision put by hand,
`GatewayProof`, `ObservePool` with `Reconciled` for `scaling::reconcile`), the
gateway's steps (`Install`, `Report`, `Enter`, `Forward`, `Drop`, `Finish`), the
agent's (`Observe`, `InspectPod`, `ApplyDesired`, `ReportCluster`), the operator's
(`OperatorReads`, `OperatorWrites`) and the environment's (`Crash`, `Arrive`,
`Leave`, `Rollout`, `Scrape`). `authorize_serving` reads the session and the pool
in separate statements and is therefore `CheckSession` and `CheckPool`.

- Handing out an observation task and reading the cluster are one step: whatever
  overtakes the task in between makes the report a refused one. An observation
  that found Kubernetes unavailable, or an entry out of order, is `Abandon` and
  `ReadyExpires`: it records nothing but the loss of readiness.
- Expiry of a lease or grant needs no step of its own: what an expired grant
  forbids is a step that is not taken. `ReadyExpires` is one, because other steps
  read it.
- A termination fence is a time in the code; here it is the number of
  terminations so far, and a sample knows how many it follows.
- A revision asks for a replica count, for deletion, or leaves the deployment out.
  `guard_desired` lets the last kind pass in every state of the pool
  (`managed_pools.rs` 456-458), and the agent then leaves the ModelDeployment as it
  is (`cluster.asks = Omitted`).
- `runtime` tells four counts apart: of the ModelDeployment (`replicas`), of the
  operator's copy of it, which may be stale (`copy`), of the Deployment's spec, with
  whether its controller has seen it (`spec`, `observed`), and of the pods
  (`running`). `RuntimeReady` compares what `observation.rs` compares: for an
  autoscaled pool the Deployment's spec, and of its pods only the minimum.
- `cluster.resized` records that a replica count was changed by hand. No action
  reads it.
- A recommendation of KEDA is any allowed replica count, or none.
- A request that its gateway has dropped while the entry still works on it is not
  counted as using the pool: the code counts permits, and after the permit is
  gone the upstream connection is being reset.

### Quota

One API key. `caller` is the proxied request, `queue` and `work` the channel and
the current command of each gateway's quota worker, `tries` the attempts it has
left, `wire` the sends it gave up on and Redis has not executed yet, `hash` the
hash of each minute, `now` the clock of Redis. `Reserve` and `Settle` enqueue or
are refused by a full channel; `Recv`, `Succeed`, `Fail` and `AnswerError` are the
worker's loop; `Fail` covers a reply lost before or after execution;
`ExecuteLate` executes a send nobody waits for; `GiveUp` is the caller's deadline;
`Retain` keeps a reservation at its estimate; `CheckRateLimit` is the count of a
gateway without Redis. A gateway reads its own clock, which may be any minute, in any
order: `check_rate_limit` (`auth.rs` 206) takes every other minute for a new window.
`rewound` records the gateways whose clock went back past a minute they had counted
in; no action reads it. The clock of Redis does not go back. The scripts are
operators on the hash. Byte lengths and the length of the minute are left out.

### ClusterDelivery

`row` is the cluster's row, `revisions` the append-only payloads, `agents` the
replicas of the member agent, `objects` the ModelDeployments in the member
cluster, `writes` and `reports` what is under way without anyone waiting. The
control plane's handlers are `PutDesired`, `Rotate`, `Revoke`, the poll and
`Report`; an agent polls, validates the whole payload, reads an object, checks it
and writes it with the preconditions of the code, one object after another, and
reports. The election is not a fence: a paused agent goes on after another took
over, so any number may be active. A resource version is modelled by whether
somebody wrote the object since it was read. Faults (`PollLost`, `WriteLost`,
`LoseReport`, `LeaseExpiresEarly`, `Touch`, `CreateForeign`, changes of the
credential) are counted.

### Routing

One project and the policy of one model. A specification is the stable pool, the
canary or none, its percentage and its header rules in order. `BeginChange` is what
`put_route_policy` and the release actions read before the transaction,
`CommitChange` the compare-and-set with the history entry. `ReadTable` is one
statement of `gateway_snapshot`, in the order of the code, with anything in
between; `Install`, `Refuse`, `LoseSnapshot` and `RestartGateway` are the
gateway's refresh. `Select` and `Forwards` are the choice of `routing.rs` and the
check of the proxy. The rules that a pause keeps have the numbers they had: only
their order is read. Managed pools are left to `ManagedTraffic`; keys do not expire
while a gateway holds them. A policy from before the history was introduced, whose
history starts with a `legacy_snapshot` at a later revision, is not among the
initial states.

### Operator

`model` is the ModelDeployment with its status, `children` the objects of its name,
`legacy` the HPA an earlier operator made, `hpa` the one KEDA made, `run` the
reconciliation under way with the copies it has read, `late` the requests nobody
waits for, `upsets` the faults so far. A reconciliation is one
action per read and per write, in the order of the code, with the ownership check
of all children before the first write, and ends with the status. `Collect`,
`CollectLegacy`, `FinishScaler` and `CollectHpa` are Kubernetes and KEDA.

- Children that the code treats alike are one kind: Deployment and Service;
  disruption budget and InferencePool; the recommendation (ModelScale); the
  ScaledObject.
- One replica leads at a time: a leader stops itself within 8 seconds of a failed
  renewal, its lease lasts 15. A request it sent may arrive later. A leader whose
  process is paused past its lease is out of scope.
- A specification scales by hand, by KEDA acting on the Deployment, or by KEDA
  through the recommendation of a ModelScale (`autoscaling.managed`). The status
  patch of the recommendation counts as its write. Status requests are not delayed, the
  Ready and AutoscalingActive conditions and invalid specifications are left out.

## 3. Runs

| Run | Properties | Shows |
|---|---|---|
| `billing_holds` | `TypeOK`, `ProjectionsAgree`, `BudgetHolds`, `EnforcedStepsAreCovered` | two keys race for balance and budget across a month change, over history older than the projections and near the i64 limit: projections equal history whichever handler creates them, a budget is never exceeded by holds and reserved spend together, and while enforcement is on no step takes money that is not there |
| `billing_paths` | `ReviewsTakeEffect`, `ChargedOnce`, `OutboxTellsState` | reservation and v1 usage of the same request with credit, debit, zero usage, two reviews and two people: one charge per hold, never both paths for a request, an approval takes effect or fails as a whole, the outbox tells the state |
| `event_worker` | `EffectsMatchAck`, `NoLostWakeup`, `LeaseIsRespected`, `ImplementsOrderedConsumption`, `EveryEventSettles` | effects and acknowledgement stay together, no lost wake-up, only the holder ends a live lease, implements `OrderedConsumption`; every event is settled or its job is dead |
| `billing_feed` | `WatermarksOrdered`, `FeedImplementsOrderedConsumption` | nothing is acknowledged that was not delivered and processed, and the cursor never goes back |
| `gateway` | `MoneyFollowsInference`, `WorkHasSlot`, `DeliveredIsRecorded`, `AdmissionEnds` | a forwarded body has a dispatched hold, work owns its slot, delivered means recorded; every admission is decided and lets go of its slot, whether or not the control plane answers |
| `payments` | `CreditedOnce`, `ClearingMatchesEvidence`, `MoneyOutIsCovered` | two orders with concurrent checkouts, two trades and two refunds: an order is credited once and order and checkout agree that it is paid, clearing matches the evidence, money out is debited first and within the capture, and a refund takes only what a postpaid account owns beyond its holds |
| `membership_race` | `TenantKeepsOwner` | violation, section 6 |
| `traffic_pools` | `OperationOwnsPool`, `DrainedIsUnused`, `AckIsInstalled`, `ShrinksUnused` | a pool opened, drained, reopened, resized and deleted by hand and by recommendations, with lost and late snapshots and reports, a crash with a request under way and its proof: drained means unused, acknowledged means installed, nothing else moves the pool of an operation or asks for another count, the ModelDeployment shrinks only while the pool is unused, and so do the pods unless somebody has resized the pool by hand |
| `quota` | `LimitsHold`, `CountersAgree`, `AdmittedIsCounted` | however late, lost or repeated the commands and however wrong the gateways' clocks, no minute admits more than its limits over Redis; neither does a gateway on its own unless its clock is set back; counters are the sum of the recorded reservations, an admitted request is counted while its minute lives |
| `delivery` | `AckedIsApplied`, `WritesAreFenced`, `DesiredIsReached` | two agents, two revisions, late writes and reports, expired leases, rotation: acknowledged means applied, a refused payload leaves nothing behind, no write goes back or touches what is not ours, and the newest revision is acknowledged unless something obstructs it for good |
| `routing` | `HistoryExplains`, `PausedMeansStable`, `PolicyIsServable`, `PriceIsEvidence`, `ReleasesArrive` | two operators and one gateway: each history entry was made from the one before it, a paused release reaches the stable pool only, an installed policy selects pools to which the same snapshot forwards, a price version means one price for ever, and the last release arrives |
| `operator` | `StatusIsBacked`, `OneScalingWriter`, `NothingForeignTouched`, `Converges` | changes between the three ways of scaling, deletion and recreation, crashes and late requests: a reported generation has a workload, scaling writers do not overlap, foreign objects stay, the cluster settles |

Two configurations are kept beside the runs to reproduce the observations of
section 6: `MCGatewayAdmission_orphans.cfg` and `MCManagedTraffic_reopen.cfg`.
TLC reports the property of each as violated.

### Bounds

- `Billing`: `billing_holds` has an open hold, a usage row and a credit from
  before the projections beside a new reservation, two keys so that a row of one
  can miss the other's, and two months for the rollover; `billing_paths` has one
  request shared by a reservation and a v1 event, and two reviews and two people
  for the review races. `MaxAmount` 5 or 6 is close enough to the amounts for
  every checked addition to be refused in some state; `KeyBudget` is one unit
  above the largest hold, so two of those do not fit.
- `EventWorker`: three events with batches of two give a full and a partial
  batch; three attempts, a lease of two seconds; `MaxEpoch` is at least
  attempts times events, so that the bound on epochs never stops a job
  (`RetryBound` limits only the operator). Event 3 is poisoned.
- `BillingFeed`: three events, pages of one and two, two replicas.
- `GatewayAdmission`: two requests for one place in the channel and one worker; the
  usage queue has room for both, so that they can meet in the channel.
- `Payments`: two orders of two units, two checkouts, trades and refunds, refunds
  of one or two units, one unit held and charged in all: on an account without
  credit this is below zero.
- `Membership`: three users, two requests under way.
- `ManagedTraffic`: `traffic_pools` starts in any of five set-ups. `ByHand`: one
  gateway with an identity and one request; five generations and three snapshots
  are what it takes to accept and to acknowledge a closing, and to reopen.
  `Scaled`: KEDA moves the replicas between 1 and 2 under traffic of an anonymous
  gateway, with one revision to come. `Interfered`: the same while an administrator
  drains, resizes, deletes and puts revisions without the deployment. `Edited` and
  `Resized`: two revisions to come and a Deployment yet to be created, with and
  without autoscaling, where roll-outs overtake each other; no gateway takes part.
  One request per gateway is enough because the counts of `Blocked` are compared
  with zero only.
- `Quota`: two requests, two gateways that share Redis and one that does not; two
  keys, one limited by its requests, one by its tokens; a request reserves two
  tokens and uses one or three, so that settlement gives back or exceeds; a channel
  of one, so that it is full; minutes 0 to 2, so that minute 0 expires. Two requests
  are too few for a clock that is set back to exceed a limit; the proof covers it.
- `ClusterDelivery`: two names, two agents, two revisions, two faults. The
  payloads create both objects, replace one under its identity, delete one, or hold
  one good and one refused item.
- `Routing`: two models, two pools of which one is known from the start, a canary
  behind a header and a weight, two operators, five changes altogether: release,
  pause, promote and roll back with one to spare.
- `Operator`: manual scaling with optional children, direct and managed scaling
  without, two generations, two faults, with or without an old HPA at the start.
  `Edits` bounds which specification may follow which: from manual to direct scaling,
  between direct and managed, from managed to manual, and a change that scales alike.

Deadlock checking is off where the system or its bounds really let it stop:
`EventWorker` (the log is bounded), `GatewayAdmission` (a process that has drained
and stopped does nothing), `ManagedTraffic` (a retired pool without gateways is
final), `Quota` (every request is over and the clock at its bound),
`ClusterDelivery`, `Routing` and `Operator` (changes and faults are counted).
Symmetry is used only in runs without liveness properties.

### Fairness

- `EventWorker`: weak fairness of each worker's loop and of the clock. `run`
  polls for ever on every replica and always goes on with a lease it holds.
  Crashes, appends and the operator are not fair, so the property must survive a
  worker that crashes each time.
- `GatewayAdmission`: weak fairness of the admission thread (its HTTP calls have
  deadlines) and of the request future that reads its body or waits (both have
  deadlines). Nothing is assumed of the control plane, the network, the delivery
  worker or the operators, nor that an admitted request ends: the limits of
  `proxy.rs` 512-518 are for connecting and for silence, and a stream that keeps
  sending keeps its slot.
- `ClusterDelivery`: weak fairness of each agent's loop, of reports that are not
  lost and of the passing of time. The number of faults is bounded, so this says
  what happens after the last one; losing the election is one of them.
- `Routing`: weak fairness of the refresh thread, strong fairness of installing a
  snapshot, since a snapshot read at a bad moment is refused or lost and the thread
  tries again every period.
- `Operator`: weak fairness of the reconciliation loop (errors are requeued), of
  garbage collection and of KEDA's finalizer. Nothing is assumed of owners.
- `ManagedTraffic`, in `MCManagedTraffic_reopen.cfg` only: weak fairness of the
  agent's loop (apply, report, observe, take a refusal), of the operator and of
  the roll-out, strong fairness of an accepted observation, so that lost reports
  alone cannot keep a pool closed. Nothing is assumed of gateways, Prometheus or
  operators.

## 4. Refinement

`OrderedConsumption` says what a consumer is promised: events are appended at the
end, the cursor moves forward and never past the end, and it never passes an
event that has not been processed. `EventWorker` implements it with
`cursor <- job.acknowledged` and `processed <- effects`, `BillingFeed` with
`cursor <- row.acknowledged` and the set of events some replica has processed.
Both are checked by TLC (PROPERTY `ImplementsOrderedConsumption` and
`FeedImplementsOrderedConsumption`) and proved by TLAPS (`Refinement` and
`FeedRefinement` of `ConsumptionProofs`).

## 5. Proofs

A theorem holds for every value of the constants that the named assumption of the
module allows; TLC evaluates the assumption in every run of that module. Each
component has an inductive invariant (three lemmas: the initial states satisfy it,
every step keeps it, and so it always holds); the theorems follow from it.

Three proof modules are about two components each that belong together: the two
consumers of the log, the gateway, the member cluster. They extend both, which is
why `BillingFeed`, `GatewayAdmission` and `Operator` name their specifications
`FeedSpec`, `AdmissionSpec` and `OperatorSpec`. The proofs of the two do not use
each other.

| Module | Theorems | Assumptions |
|---|---|---|
| `BillingProofs` | `TypeCorrect`, `ProjectionsCorrect`, `ChargesCorrect`, `BudgetCorrect`, `OutboxCorrect`, `ReviewsCorrect`, `CoverageCorrect` | `BillingAssumption`, `MaxAmountAssumption` |
| `ConsumptionProofs`, `EventWorker` | `EffectsCorrect`, `WakeupsCorrect`, `LeasesCorrect`, `Refinement` | `EventWorkerAssumption` |
| `ConsumptionProofs`, `BillingFeed` | `WatermarksCorrect`, `FeedRefinement` | `BillingFeedAssumption` |
| `GatewayProofs`, `Routing` | `HistoryCorrect`, `PausesCorrect`, `ServableCorrect`, `PricesCorrect` | `RoutingAssumption` |
| `GatewayProofs`, `GatewayAdmission` | `MoneyCorrect`, `SlotsCorrect`, `DeliveryCorrect` | none |
| `MemberClusterProofs`, `ClusterDelivery` | `AckedIsAppliedAlways`, `WritesAreFencedAlways` | `DeliveryAssumption` |
| `MemberClusterProofs`, `Operator` | `StatusIsBackedAlways`, `OneScalingWriterAlways`, `NothingForeignTouchedAlways` | none |
| `PaymentsProofs` | `CreditsCorrect`, `ClearingCorrect`, `RefundsCorrect` | `PaymentsAssumption`, `MaxAmountAssumption` |
| `QuotaProofs` | `CountersCorrect`, `AdmissionsCorrect`, `LimitsCorrect` | `QuotaAssumption`, `MaxAmountAssumption` |
| `ManagedTrafficProofs` | `DrainCorrect`, `AcksCorrect`, `OperationsCorrect`, `ShrinkCorrect` | `TrafficAssumption` |

`CoverageCorrect`, `LeasesCorrect`, `ShrinkCorrect`, `WritesAreFencedAlways` and
`NothingForeignTouchedAlways` are action properties, `Refinement` and
`FeedRefinement` implementations of `OrderedConsumption`, the others invariants.

**Billing**, for any finite set of reservations, v1 events, credits and debits, any
keys, requests, people, months and prices, and any initial history that fits an
i64. The first two theorems rest on `IInv == TypeOK /\ RowsLinked /\ HistoryFits /\
ProjectionsAgree`. `ProjectionsAgree` alone is not inductive. A key's hold is
right only if a row's key is a key (`RowsLinked`; an approved review must also
point to a row and to counts that exist). A projection row that does not exist
is read from history, and the result is a value of the row's type only if the
history fits (`HistoryFits`); the history fits because every change is checked on
the value read, which equals the history by `ProjectionsAgree`. So the three are
proved together. The argument for a step: `ReadsAreHistory` (a read, by row or by
backfill, is the sum over history), then `ResvWrite`, `UsageInsert`, `LedgerPost`
(what writing one row does to the sums), then `ProjectionStep` (if the rows move
by the delta the sums move by, agreement holds again). `TotalsTheorems` proves
what an insertion and an update do to a `Total`; it rests on cardinality of
finite sets, which is why `Total` counts units instead of recursing.

The other theorems need `MoneyInv`, which adds `RowsInv`, `BudgetHolds`,
`OutboxTellsState` and `ReviewsInv`. `RowsInv` says what the rows of one
reservation have to do with each other: the hold is the cost of its limits at the
price frozen with it, a usage row exists exactly when it is settled, and no charge
lies in a month to come. A settlement then costs at most the hold it ends
(`CostMonotone`), so a key's spend and hold together do not grow: that is the step
`BudgetHolds` needs and that no single row shows. `ReviewsInv` extends
`ReviewsTakeEffect` to reviews not decided yet, whose audit trail the decision
relies on. `CoverageCorrect` follows from `ProjectionsAgree`: the check is made on
the projections, the property is about history.

**EventWorker**, for any workers, batch size, lease and attempts: the invariant
adds to the two safety properties only the types and that a job which may still
fail has an attempt left. The leases need no invariant: each step that ends a live
lease carries its epoch.

**BillingFeed**: what lies behind the cursor is processed (`CursorIsProcessed`), and
wherever an acknowledgement is, in a replica's hand (`HandIsHonest`) or in a request
between its two reads (`RequestIsHonest`), everything between the cursor it expects
and the sequence it names is processed. Without the last two the refinement fails
at a late acknowledgement.

**GatewayAdmission**: the invariant is stated per request. What the gateway holds
in its hands (a decision, an answer, an event) is only there when the control
plane's hold has moved on far enough, and a hold never moves back.

**Payments**: per booked trade and per order, what receipt, payment and checkout
say of each other; the clearing accounts as totals over the evidence; every
request to the provider was debited before (`SentIsDebited`). That a refund takes only
the account's own money is an action property: `refund_pending` grows in no step but
the one that compares with the balance beyond the holds.

**Quota**: a minute's hash counts what it records, within the limits, whoever sends
the scripts and however often (`HashesGood`), and it records reservations of its
own minute with what they asked for (`RecordsOwn`). The rest is about minutes that
are over: their hash is gone, so what was admitted in them is remembered as
bounded (`ExpiredHeld`), as is what a gateway on its own admitted (`LocalHeld`).
The limits follow for any number of gateways over Redis with any clocks of their own,
and for a gateway that counts for itself as long as it is not in `rewound`.

**ManagedTraffic**, for any gateways, any finite set of requests, both protocols and
any setups. `DrainedIsUnused` is about requests, the code decides on rows; the
invariant spans the way between them. Snapshots, grants and acknowledgements are
ordered by generation and sequence (`Ordered`), the last snapshot is the one
recorded as delivered (`LastDelivered`), and a grant is of a generation the pool
was open under (`GrantsOpen`). Hence a report that answers the last snapshot
speaks of the delivered generation, and a count of zero stays true as long as
nothing is granted (`ReportHolds`). When the pool becomes drained every participant
has acknowledged its generation, so no gate is open and no grant on the wire can
open one (`Shut`). For dead gateways `EvidenceInv` says that an idle sample covers
the requests of every gateway that ended before it, which needs the newest unknown
fence to exist and a closed session never to pass the first check again.
`OperationOwnsPool` and `ShrinksUnused` need `PoolInv`. Its first half, `RowsInv`, is
about the ModelDeployment: a pool that is open, or believed to be ready, has no
larger one than its row asks for, so nothing is left that could shrink it. Its
second half, `PodsInv`, follows the operator and the pods of a pool that nobody
resized by hand: all counts agree (`Steady`), or an operation is raising or lowering
them (`Rising`, `Falling`) from copies and specs of either side. A reduction is over
only when the pods are counted down (`RolledOut`), which is why the pool reopens
after the last of them is gone; readiness alone would not do (`RolledOut_Ready`).

**Routing**, for any models, pools, operators, gateways and changes. None of the
four properties is inductive, because none says anything of what is held between
a read and its use: the change of an operator between `BeginChange` and
`CommitChange`, and the tables of a snapshot that is not complete. The invariant
says of each that it was true when it was read, in terms that stay true: the
history, the price book and the pools of the routed model only grow (`Grows`). So a
planned change is explained by the revision it expects (`Planned`), and the
compare-and-set only has to find that this is still the last one. A policy that was
read names pools that were registered by then, and the endpoints are read after it
(`SnapshotOK`): with the reads the other way round `PolicyIsServable` would fail.
`PriceIsEvidence` needs that also an old table in a gateway's hands is priced by the
book of today (`Priced`). What `Select` chooses is the least matching rule; that
there is one is the well-foundedness of the numbers (`LeastExists`), not induction.
`RoutingAssumption` says what offers, specifications and start-up pools are, and that
None is none of them.

**ClusterDelivery**, for any names, agents, revisions and numbers of faults.
`AckedIsApplied` is about the row and the objects; between them are agents that have
done a part of a revision and reports on their way. `Done(n, v)` says that what
version v asks of a name is done or was undone by a later version on purpose. An
agent has done every name it no longer has to do (`AgentOK`), a report of success
and the acknowledgement stand for a whole version (`ReportsOK`, `AckedOK`). This is
kept because a step can change an object only in the three ways of `Moves`, and none
of them undoes a `Done`. A request that nobody waits for makes such a move because it
is `Justified`: it asks what its version asks, and while its copy is clean the object
is ours, the one that was read and no newer than the version. This is the reason for
both preconditions of the code, the UID and the resource version. Lease ids are
fresh and unbounded, so their type is `\E L : Typed(L)`.

**Operator**, for any specifications, generations and numbers of faults. The same
plan: `OpMoves` lists what may happen to a child, and a late request is `Sound`. What
comes on top is the order within a reconciliation. `WorkloadOK` says that after the
workload's turn the workload is of this model and no older than the generation under
way, which the status then reports; `SwitchOK` that a ScaledObject is only written
once the old HPA was found gone and stays gone. That a write never takes a child back
needs that nothing is ahead of the model the reconciliation works from, late requests
included (`NewestOK`): with one leader at a time a request that is still under way was
made from an older read.

Only model-checked:

- liveness (`EveryEventSettles`, `AdmissionEnds`, `DesiredIsReached`,
  `ReleasesArrive`, `Converges`): fairness and ENABLED are outside the prover;
- that all actions can happen at all, and the finite instances of `Membership`, whose
  property is violated.

Every invariant and every action property of a passing run is a theorem.

## 6. Findings

**Two owners can demote each other.** `update_membership`
(`control-plane/src/repository.rs` 1144-1153) refuses to demote the last owner
because "a tenant must keep at least one owner", but counts and writes in separate
statements without a lock. Two concurrent requests each count two owners. Run
`membership_race`.

Observations, met while modelling and kept out of the list of runs:

- **Orphaned holds are not in the pending list.** `BillingAdmission::new`
  (`gateway/src/billing.rs` 119-120) says that unrecoverable intents "remain
  visible in the central pending list". `pending_reservations`
  (`control-plane/src/billing_feed.rs` 172) lists only dispatched holds. A reserve
  executed after the deadline, with the one recovery lost, leaves a hold in state
  reserved: it keeps money and appears in no page
  (`MCGatewayAdmission_orphans.cfg`, `OrphansAreListed`).
- **A scale-down may never reopen.** `docs/safe-autoscaling.md` line 12 says that
  once the smaller revision is applied and ready the entry reopens by itself.
  `confirm_idle` (`control-plane/src/gateway_proofs.rs` 236) refuses idle evidence
  for a pool that is not draining, and `observe_pool` (`managed_pools.rs` 424)
  calls it for every report that carries some, inside the transaction that records
  readiness and completes the operation. A gateway that acknowledged the drain and
  is terminated after the revision was approved leaves an unknown count; from then
  on every report of the idle, drained pool carries evidence and is refused as a
  whole, and the refusal also ends the agent's round (`cluster-agent/src/pull.rs`
  450). `MCManagedTraffic_reopen.cfg`, `ScaleDownReopens`. With the refusal taken
  out of the model TLC finds the property to hold on the same instance.
- **A start-up pool's name can be registered for another model.**
  `docs/model-catalog.md` says that it cannot be rebound; `put_serving_endpoint`
  compares with registered pools only. A policy that uses the name then has a pool
  of another model, and the gateway answers 503. `PolicyIsServable` of `routing`
  therefore excepts a start-up pool that was rebound (`Rebound`), and only that.
- **After a manual change pods may go under traffic.** `ShrinksUnused` therefore
  speaks of the pods only as long as nobody has resized the pool by hand
  (`cluster.resized`). On an autoscaled pool: drain by hand, PUT 2 to 1, the
  operator writes the Deployment, and `managed_ready` (`kubernetes/src/observation.rs`
  25-38) is true of the new spec with the second pod still there; `Activate` then
  opens the pool, a request enters, the pod goes. On a pool without autoscaling: PUT 2
  to 1 and 1 to 2 while drained; an operator that still holds the copy with 1 writes
  it after the pool was found ready with the old Deployment and was opened. The
  ModelDeployment itself never shrinks under traffic.
- **A revision without the deployment passes during an automatic change.**
  `docs/safe-autoscaling.md` line 14 says that conflicting manual operations are
  refused while an automatic one is under way. `guard_desired` skips a deployment
  that the new revision leaves out (`managed_pools.rs` 456-458), so such a PUT may
  supersede the revision that carries the new count before it is delivered. The
  operation then stays in phase applying, and a pool it had drained stays closed,
  until somebody puts a revision with the approved specification. `OperationOwnsPool`
  says what is left: no revision asks for another count.
- **A count of 0 is accepted for an autoscaled pool** by `guard_desired`
  (`managed_pools.rs` 488-491) and refused by the agent (`kubernetes/src/api.rs`
  247-250): the revision is never acknowledged.

## 7. Abstractions

- `cost_amount`, the cost of a usage row rounded up to minor units for display,
  is left out; money is accounted in microunits.
- JSON payloads and hashes: a replay with a different payload is refused and a
  replay with the same payload stutters, so payload equality is equality of the
  record.
- Amounts in `Payments` are minor units; the fixed factor to microunits is left
  out, since every entry is scaled by it.
- Ledger entries are balances of accounts, not rows with identities, where no
  property needs the rows.
- Authentication and authorization in front of the handlers are left out, except
  in `Membership`, where the caller's role matters.

## 8. Not modelled

Metrics, migrations, generated entities, the web console, the Python echo
runtime and deployment scripts change none of the state above. SSE parsing and
header policy of the proxy are byte-level; they are candidates for operators
over bounded inputs. Tax requests, alerts, audit queries and maintenance are
single-row transactions. Invoices and reconciliation are aggregates over the
ledger in one transaction. The inbound API of the member agent
(`cluster-agent/src/main.rs`) applies single requests of a trusted caller. Of
managed traffic, route acknowledgements, revoked credentials, a replaced
deployment, the cleanup of a gateway's finalizer and several pools of one session
are left out. How a recommendation is computed from KEDA's HPA is left out: it is
any allowed count.

## 9. Plan

Modelling, the most important first:

1. `ManagedTraffic`: an abstract specification (a pool serves, drains, is empty)
   that it implements; two gateways of which one is anonymous; the finalizer that
   keeps a dead gateway's pod until its proof is recorded.
2. A composition of `ClusterDelivery` and `Operator`: an acknowledged revision ends
   as a running workload.
3. Streaming: metering of SSE chunks as operators against a reference definition.
4. Invoices and reconciliation; the member agent's inbound API.

Theorems: with every safety property of the runs proved, what is left follows the
models above, first of all the refinement of the abstract pool by `ManagedTraffic`
and the composition of `ClusterDelivery` and `Operator`, whose proofs are already in
one module.
