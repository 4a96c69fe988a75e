# Prometheus inference platform in TLA+

Specifications of the parts of the platform where concurrency, time and partial
failure decide whether it is correct, the TLC runs that check them, and TLAPS
proofs of what matters most. Paths are relative to the repository.

## 1. The system

Clients call the **gateway** (`gateway/`, FastAPI, uvicorn workers that share
Redis and a SQL database). It authenticates them against keys published by the
**auth service** (`auth-service/`), limits their rates, resolves a model to the
replicas that serve it, reserves the worst-case cost against the client's monthly
cap, forwards the request, and meters, bills and settles the answer. The replicas
are engine processes that a **manager** (`runtime/manager/`) on each node starts,
stops and registers; the gateway polls the managers for what they serve, and the
managers report to the coordinator that keeps the fleet.

| Part | State it keeps | Operations | Hard behaviour | What makes it correct |
| --- | --- | --- | --- | --- |
| Circuit breaker (`circuit_breaker.py`) | Redis: state, failures, opened_at, probe lock with a TTL. Per worker: a 2 s snapshot, a success counter, thresholds | `allow_request`, `record_success`, `record_failure` | every `await` on Redis lets others in; replies are cached after they are out of date; Redis may be away | stale knowledge is bounded; reaching the threshold opens; transitions are not early; open is left again |
| Spend cap (`budget.py`) | Redis: spend and announced thresholds per client and month. Per worker: cached caps | `reserve`, `settle`, alerts | concurrent reservations at the cap; requests that die half-way; a month that ends | no money lost or made up; the cap holds; each threshold is announced once |
| Idempotency keys (`idempotency.py`) | database: a record per client and key, with a 24 h window | `begin`, `complete`, `release` | reads and writes are separate statements; cancelled tasks | one generation at a time; replays are faithful; billed once; a key is never blocked |
| Inference (`router.py`, `models/backends.py`, `health_monitor.py`) | per worker: in-flight counts, capacities, unreachable replicas | five handlers, the stream, failover, probes | a dozen exits; callers that leave; a slot claimed before its generator runs | counts are exact; every answer is booked once; pins are kept; requests end |
| Rate limiter (`rate_limiter.py`, `rate_limit_middleware.py`) | Redis: counters per identity, route and minute or day | gates, charges | token gates read now and charge when the answer is complete | overshoot is bounded by concurrency; refusals are justified; the platform's refusals cost a client nothing |
| Catalogue sync (`models/manager_sync.py`) | catalogue, last good answer per node, snapshot in the database | refresh, blocking queries, compose, save, restore | nodes that fail, queries that overlap, restarts during an outage | nothing served is lost or set back; the loop does not spin; changes arrive |
| Keys (`auth/jwks.py`) | per worker 30 s, Redis 5 min | fetch, invalidate | rotation with two cache levels and a throttle | a retired key stops working and a new one starts to, within a bound |
| Settings, tiers, prices, usage (`admin/`, `pricing.py`, `db.py`, `scripts/`) | rows, and copies of them in memory | PUT, reset, restart, sync, repair | row and copy are written one after the other | a restart changes nothing; rollup, events and prices agree |
| Instances (`lifecycle.py`, `scanner.py`, `registry.py`) | PID files, processes, the node's registry | start, stop, pause, resume, restart, deregister, retire, edits | operations run in threads that nothing keeps apart; the registry checks and writes in two sections of its lock; the manager may die between two steps | one process per instance; none is lost; slugs are unique |
| Downloads (`downloader.py`, `discovery.py`) | download states, files | start, pause, resume, cancel, retry, delete | a writer that has not stopped yet when another starts | a model said to be downloaded is whole |
| Fleet (`fleet.py`, `fleet_routes.py`, `fleet_sweep.py`, `heartbeat.py`) | a row per node | heartbeat, sweep, update, check | read, await a probe, write back | what the operator said stands; who counts as alive was seen |
| Credentials (`oauth2.py`, `login_throttle.py`, `share.py`, `routers/admin.py`) | rows, revocation keys, failure windows, share links | token, deactivate, share, view | checks before awaits, writes after; two stores | revoked is refused; a secret is shown once; a budget is kept |
| Schemas (`gateway/migrations`, `schema.py`, `registry.py`) | three SQLite files | migrate at start | a start may be killed between two statements | every start brings the file to head |

**How the parts meet.** A chat request goes through `rate_limit_middleware`, then
`idempotency_middleware`, then its handler: `begin` on the key, `_healthy_members`
(health monitor, pool, breaker), `reserve`, `forward_with_failover` (pool,
breaker), the usage row, `settle`; the middleware or the stream's generator
settles the key. The breaker, the budget and the key share nothing but the
request that passes through them, which is why each has a module of its own;
`Inference` is the handler that calls them, and takes any answer they may give.
`Lifecycle` is composed with `ModelRegistry`, whose rows its operations read and
remove. `ManagerSync` implements the abstract `StaticStability`.

## 2. Modules

| Module | Models |
| --- | --- |
| `CircuitBreaker` | one backend's breaker: Redis, workers, requests, time |
| `SpendCap`, `Spending` | one client's spend over several months; `Spending` gives it the names under which its runs check it and `GatewayProofs` extends it together with `Services` |
| `Idempotency` | one key of one client |
| `Inference` | the forwarding handlers, the pool and the health monitor of a worker |
| `RateLimits` | the gates, the counters and the charges |
| `StaticStability` | what the catalogue promises, with no failures in it |
| `ManagerSync` | the catalogue's sync task, with nodes, coordinator and auth service that fail |
| `ModelRegistry` | the edits of a node's models and instances |
| `Lifecycle` | the operations on engine processes, over `ModelRegistry` |
| `Jwks`, `Credentials`, `ShareLinks`, `LoginThrottle` | authentication: keys, a client and its tokens, one-time links, failed sign-ins |
| `Settings`, `Tiers`, `Ledger` | what operators edit: limits, tiers and caps, prices; and the usage that is billed |
| `Fleet`, `Downloads` | one node of the fleet; the download of one model |
| `GatewaySchema`, `SchemaChain`, `RegistryUpgrade` | the three databases brought to their present schema |
| `Services` | the twelve components of the four rows above, side by side |
| `*Proofs` | the theorems about the module of that name; `GatewayProofs` those about `SpendCap`, `Settings`, `Tiers`, `Ledger` and `GatewaySchema` |
| `MC*` | the values of the constants in the runs |

A definition whose comment begins with `Fault:` is a plausible defect of the
operation below it. No specification uses it; it is there to show that the
property which guards against it notices. Variables marked `history` are read by
properties only.

**CircuitBreaker.** A coroutine loses control only at `await self._redis...`, so
one action runs from the reply of one Redis command to the effect of the next.
`pc[r]` says which reply a request waits for; `view[r]` is the `CircuitState` that
`get_state` gave it; `rstate`, `failures`, `opened` and `lock` are the keys of the
circuit; `l1`, `successes` and `settings` are a worker's. `_healthy_members` reads
the state and `allow_request` reads it again with no coroutine in between, so
there is one read. `EndUnrecorded` is every end that the breaker does not hear of.
`HangUp` cancels the task that forwards while it records the outcome: at whichever
`await` it is, with the command it has sent done and the rest not.
A round trip to Redis is shorter than a tick, of which the snapshot lives one or two.

**SpendCap.** Amounts are the integer micro-dollars the code converts to. `Reserve`
is the pipelined `INCRBY` and the decision its reply leads to, `Rollback` the
compensating `INCRBY`, `Notify` one `SADD` of `_check_thresholds`, `Settle` the
`INCRBY` of `settle` with the month as it is then. A request's cap is the saved one
or an earlier one that a worker still caches.

**Idempotency.** Each action ends with one database statement. Updates and deletes
go by primary key, as SQLAlchemy issues them, so they hit whichever record is
there by then. `Expire` is the passing of 24 hours; a request is over before the
record it inserted is that old.

**Inference.** An action is what runs between two awaits of one event loop. The
action of an endpoint is named for it (`ChatPicks`, `EmbeddingsReserves`,
`ImagesFails`, ...) where the handlers differ, and shared where they call the same
helper. A breaker answers anything, a reservation is made or refused, a caller may
leave at each point where the handler listens. `inflight` is the pool's count, `at`
where a request is; `Books` is the task that enters the usage row and the
settlement, detached or not, each of which an error may reach.

**RateLimits.** A counter is named by dimension, identity and route. A deployment is
a record of limits with the tiers of its clients; `Chain` lists the gates a request
meets in order, each either counted and compared in one command or only read.
`Charge` is one request's pipelines. Only counters of the current minute and day are kept.
`hit` and `paid` are history: the counters a request has raised that are still those
of this minute or day, and whether it ever raised one that is not the platform's.

**ManagerSync.** A node's registry is its version; `Report` says what it serves at
each. One action is what `_sync` does between two awaits; each fetch of the gather is
a request of its own. `Stability` maps the catalogue to `StaticStability` by the
version of each node on show.

**ModelRegistry, Lifecycle.** An edit that checks before it writes is two actions, as
the code takes the lock twice: `AddCatalog`, `Add`, `AddInstance` and `SetSlug` check,
and `WriteEdit` writes what `edit` says without looking again. The handlers run on the
event loop and do not await in between, so no other handler comes there (`LoopIsFree`);
the threads of the lifecycle do. An operation on a process runs in a thread of its own:
finding the process, `Popen`, the PID file, each health poll, the signals, the end of a
cascade's list and the removal of rows are steps, between which other threads, engines
that exit and a crash of the manager come. Operations on the same instance overlap
freely. `doubled` and `overlapped` are history: the instances that two starts had both
found without a process, and those on which a start and another operation overlapped
(a signal does not count; an instance with neither an operation nor a process is as new).
`overtaken` is history too: the models archived between the check and the write of an
instance. A killed process (`SIGKILL`) lives until it exits, as its end is not waited for.

**The twelve others** are described at the head of each module. What counts as a step
follows the same rule: a database commit, a Redis command, a file operation, or what
runs between two awaits.

## 3. Runs

| Run | Instance | Shows |
| --- | --- | --- |
| `cb_safety` | 2 workers with one request each, 1 retry, threshold 2, timeout 3 ticks, 2 successes to close, snapshot of 2 ticks, 1 outage or restart | the safety properties of the breaker |
| `cb_shared` | 1 worker, 2 requests, two settings an administrator switches between, snapshot of 1 tick, 1 outage or restart | an open circuit is left |
| `cb_wedge` | 1 worker, 2 requests, no faults | **finding:** half-open may be for ever |
| `spend_cap` | 3 requests, 2 months, 2 caps, 2 thresholds, real costs below and above the estimate, 1 death | the properties of the spend cap |
| `spend_month` | 2 requests, 2 months, 1 cap, no deaths | **finding:** a settlement in the next month defeats the cap |
| `idem_key` | 2 requests, 2 fingerprints, plain and streamed, any number of deaths and windows | the properties of a key |
| `idem_billed_twice` | 2 requests, streams | **finding:** a cancelled stream's answer is billed twice |
| `inference` | 2 requests that between them call all six endpoints, 2 replicas of which one reports a slot and may be found dead, pins to a replica and to a stranger, 1 request whose books an error reaches | the handlers' books and counts, and that requests end |
| `limits` | 2 requests at a time, 3 in all, 3 minutes of which the first two are one day, 1 Redis error, three deployments: tight in requests, tight in usage, tiered | the properties of the limiter |
| `catalogue` | 2 nodes that come to serve the same id, 1 of an older release, 3 outages, restarts or changes of the fleet | the sync loop, and that it implements `StaticStability` |
| `node` | 2 models, 2 instances, 2 threads, 2 processes, 1 edit, 1 crash | registry and processes of a node |
| `services` | twelve components, each on an instance of its own | their twelve properties |

`services` is one run over components that share nothing: the first state picks a
component (`focus`), whose variables are the slots `s1`, `s2`, ... and the others stay
0, so the states are the sum of the components' and not the product. Each property
speaks of its component only.

**Breaker.** `BoundedStaleness`: a coroutine that believes closed of a circuit that is
not, or the reverse, is behind by less than the snapshot's lifetime, though snapshots
may be stored after the change. `OpenerInFlight`: a count of failures over every
threshold does not leave the circuit closed; some `record_failure` is on its way, or
was taken away by a caller that hung up, and then the next failure's is.
`TimelyTransitions`: open is not left before the recovery timeout, and closed does not
become half-open, except within a snapshot's lifetime of the transition that outdated
it. `OpenIsProbed`: an open circuit is left.

**Spend cap.** `SpendConserved`: the counters hold exactly what requests under way
have reserved, what settled requests cost, and what nobody will settle. `CapHolds`: a
month is committed to at most a cap plus what requests cost above their estimates plus
the credit that an earlier month's requests gave. `CrossingNoticed`: a threshold
above zero, reached under every cap, has been or is being announced. `AlertedOnce`: by exactly one
request.

**Key.** `OneGeneration`, `ReplayFaithful` and `BilledOnceUnlessReturned` hold with
named exceptions: `"stolen"`, an expired record deleted by primary key after a fresh
claim replaced it, and `"returned"`, a key given back after its answer was metered.
`HeldWhileRunning`: no exit forgets to settle. `HeldKeyIsFreed`: a key in progress does
not stay so.

**Inference.** `SlotsAccounted`: the in-flight count of a replica is the requests
there, torn streams included. `BooksKept`: whoever generated has one usage row and one
settlement, or is one of the exits the property names. `PinHonoured`, `RequestsEnd`.

**Limits.** `OvershootBounded`: tokens of a minute stay within the ceiling and one
answer per concurrent request. `PlatformSpares`: what the platform refuses has touched
no client's counter. `RefusedIsSpent`: a refusal is justified by what was used, each
request taken once, but for the daily ceiling of a route. `LiveViewAgrees`: the page
shows the limit that is enforced, with two named rows that do not.

**Catalogue.** `StaysStable`: `ManagerSync` implements `StaticStability`.
`NothingLost`: whatever a node on show last said is in the catalogue, and an entry
the gateway does not trust is of a node that did not answer. `Paced`: the loop goes
round without sleeping only after a request that was one to be held, with two named
escapes. `EventuallyFresh`: when everything answers, every change arrives.

**Node.** `RegistrySound`: slugs are unique, archived models included, and a retired
model has no instance, unless it was archived while an instance of it was checked and not
yet written. `OneProcess`: an instance has two processes only once two starts of it had
both found nothing running. `Accounted`: every process can be found under the name of a
registered instance, but for one that has been killed, one lost in a crash whose command
line does not name it, and those of an instance on which a start and another operation
overlapped.

**Services.** `RotationSettles`, `RevocationHolds`, `ShownOnce`, `BudgetHolds`,
`OperatorsWord`, `DownloadsSound`, `SettingsHold`, `TiersStand`, `LedgerAgrees`,
`UpgradeSound`, `SchemaSound` and `TablesAtHead` are stated, with their exceptions, in
the comment above each in its module.

**Findings.** The three violated properties state what the documentation or the code's
comments promise; the findings in `PROJECT.json` quote them. Exceptions in the other
properties name behaviour that is there, met while modelling:

* two overlapping starts of an instance spawn two processes (`lifecycle.py:617`), and a
  start that overlaps a stop, a removal or a retirement may leave a process whose PID
  file, or whose row, the other has removed;
* a start that times out kills the engine without waiting for its end and removes the
  PID file (`lifecycle.py:743`), so that for a while a process that no PID file names
  still runs;
* `deregister_model`, in its thread, may archive a model between the check and the
  insert of `add_instance` (`registry.py:611`, `635`): an archived model then has an
  instance, which the comment at `registry.py:871` takes to be impossible;
* `check_node`, `update_node` and `activate_node` undo a cordon made during their
  probe (`fleet_routes.py:280`); a sweep stamps a node that was given another address
  (`fleet_sweep.py:84`);
* two concurrent views both show a one-time secret, two concurrent generations leave
  two live links (`share.py:78`, `routers/admin.py:506`);
* a revocation key lives as long as tokens do now, not as long as the tokens issued
  (`routers/admin.py:249`); and a token is accepted for a leeway after its end
  (`auth/middleware.py:306`, `config.py:28`), so that one issued less than that before
  the deactivation is accepted again, for the rest of its leeway, once the key is gone;
* resume and retry start a second writer on the same file (`discovery.py:633`, `695`),
  and a retried download keeps saying that it is downloaded; an error that is not a
  `DownloadError` loses the task and leaves its state downloading (`downloader.py:137`,
  `211`, `283`);
* a partial PUT of the limits has a restart clear those that `.env` had set
  (`admin/router.py:1494`); a price reset may overwrite a PUT (`billing_router.py:543`);
  a tier may be deleted while it is assigned (`billing_router.py:118`, `290`);
* the floor under the administrators' limit (`admin/router.py:1511`) is only under their
  own gate: the ceilings of the platform, of a client's minute and of its day
  (`rate_limit_middleware.py:432`, `611`, `692`) also stand in front of `/admin/api`, have
  no floor, and do lock the operator out;
* `reprice_unpriced_usage.py` with `--include-usage-older-than-its-price` gives usage a
  price that was set after it, or a base price where there is none (lines 20, 104), which
  `NeverRerated` excepts by name (`aged`);
* a registry upgrade killed while it copies leaves a torn backup, over which every
  later start raises (`registry.py:998`); what an older release writes after a first
  attempt is not taken over;
* a start killed between the first tables and their version leaves a database that no
  later start opens: `fleet.db` (`fleet.py:368`) and `gateway.db` (`db.py:550`); and a
  revision killed between a table and its index loses the index;
* the daily ceiling of a route counts a machine client twice
  (`rate_limit_middleware.py:692`); a stream torn before its generator runs keeps its
  slot (`router.py:4096`); a chat whose caller left is neither metered nor settled,
  where `router.py:2000` says that it is;
* a caller that hangs up between the `INCR` and the opening leaves the circuit closed over
  its threshold until the next failure (`router.py:435`, `circuit_breaker.py:243`);
* half-open admits whoever finds the probe lock there, not only its holder
  (`circuit_breaker.py:205`), where the docstring at line 165 speaks of exactly one probe.

**Bounds.** Two requests, workers, threads, processes or admin requests are enough for
every pair of steps to interleave; the spend cap has three requests, so that a
reservation to be rolled back, one held and one settling meet. `AgeCap`, `FailureCap`
and the other ages saturate at or above everything they are compared with. `MaxFaults`,
`MaxDeaths`, `MaxCrashes`, `MaxLost` and `MaxRotations` of 1 put a fault at any one
point; the catalogue has 3, an outage, a recovery and a restart on top of each other,
and the upgrades 2 or more, so that a recovery is interrupted too. `MaxOps`, `MaxEdits`,
`MaxCalls` and `MaxBoots` bound the requests of operators: 2 or 3, the two that overlap
and one more before or after. Two months have one boundary between them; three minutes
of days of two have a boundary inside a day and one between days. `node` has one
edit, whose check and write the steps of two operations come between: its product with
them is 4.0 million states, and a second edit cannot overlap the first, as handlers do
not await. A token of `services` has a leeway of one tick, and lives one or two.

**Deadlock** is checked except in `limits`, `catalogue`, `node` and `services`, whose
clocks, faults, processes and operations are bounded: there a behaviour ends when they
are used up.

**Fairness.** The breaker's `FairSpec` has weak fairness of each request (an admitted
call ends within the HTTP timeout, and clients keep calling), of the return of Redis,
and `[]<><<Tick>>_vars`: time passes. The last is a condition on time rather than weak
fairness because `Tick` waits for Redis commands under way. A key's `FairSpec` has weak
fairness of each request's next step (the event loop runs ready coroutines), of clients
retrying, and of the end of the day; `HeldKeyIsFreed` is stated for executions in which
requests do not die for ever. `Inference` has weak fairness of the worker's steps for
each request (calls to an engine have a timeout) and none of callers hanging up or of
probes. `ManagerSync` has weak fairness of the loop and of each request of the gather
(a held query times out); `EventuallyFresh` assumes that outages end, and nothing else.

## 4. Proofs

The theorems hold for all values of the constants that satisfy the named assumptions of
each module: `CircuitAssumption`, `SpendingAssumption`, `KeyAssumption`, `SyncAssumption`,
`RegistryAssumption`, `LifecycleAssumption`, `InferenceAssumption`, `LimitsAssumption`,
`DeploymentAssumption` and `ServicesAssumption`. Most say what type a constant has. Those
that say more are: requests are finitely many where they are counted; lifetimes are natural
numbers, the breaker's at least one tick; a node is listed once; an instance's id is not
empty; no user of one client has the name of another client; there is a largest answer; the
name `None` is nobody's and no cap is the mark of a missing tier; a login key has a budget
of at least one failure and a window of at least one tick (`retry_after` would look for the
oldest of no failures); settings are of the three kinds the gateway has; files are numbered
from 1, and a download's files, chunks and lists are natural numbers; no price is below 0; a
database from before Alembic has tables of the baseline; and each migration of `fleet.db` is
written for the shape that those before it leave, which holds the columns that the baseline
is lifted to. TLC evaluates them on every run. A theorem that needs less than the
module's assumptions, or also that there are two processes, says so in its `ASSUME`.

Each safety property is a conjunct, or a consequence, of an inductive invariant of named
parts; each module proves that the invariant holds at first and that every action keeps it,
one lemma for an action or for what several actions have in common. What the invariants had
to add to the properties is what a reader should know:

* `CircuitBreakerProofs`. `StalenessBounded`, from `StaleInv`: every snapshot and every reply
  under way that disagrees with Redis about closed is no older than the last change; the reply
  of an `MGET` cannot survive a `Tick`, and the snapshot ages with the change.
  `OpenerIsInFlight`, from `OpenerInv`: while no fault has happened, the highest count a
  request has drawn is the counter, so the request that drew it is still between its `INCR` and
  the opening, or was cancelled there and no `INCR` came since (`cut`).
  `TransitionsTakeTheirTime`, from `TimelyInv`: what a snapshot says of the time to probe stays
  true as it ages together with the circuit, and becomes wrong only when the circuit opens
  again, of which the snapshot is then older.
* `GatewayProofs`, of the spend cap, which is in this module because it adds up money as the
  ledger does. `AlertsGoOutOnce`, from `AlertInv`, which
  adds that a threshold in some request's `crossed` is in `notified`. `SpendIsConserved`: a
  sum over requests may begin with any of them, and so one request's step moves it by that
  request's share. `CapIsHeld`, from `CapInv`: what a month's requests cost, reserved and
  lost is covered by the counter, by costs above the estimate and by credit that went to
  another month (`Covers`). `CrossingsAreNoticed`, from `NoticeInv`, which adds that who is
  not looking at thresholds has none left to look at, and that a request under way is held
  to one of the client's caps.
* `GatewayProofs`, of components of `Services`. `SettingsStand`: a request that is alone on its
  kind commits what it was sent over the row that it read, so that the copy in memory differs
  from the row only where that request is about to set it (`Faithful`); the floor under the
  administrators' own limit holds of everything on its way (`Floored`). `TiersAreKept`: a row
  on its way into a cache is the stored one until a commit overtakes it (`AnswersAre`), and a
  commit owes an invalidation to each copy that it made stale (`CopiesSeen`). `LedgersAgree`,
  from `BooksFit`: what was used since the price was put was used at that price (`TimesFit`); a
  repricing's plan holds events that were used at the price it gives them, unless the price was
  rewritten while it was made or the plan notes that they are older (`PlansFit`); one writer at
  a time is between the row and the live table, and owes it what the row says (`PricesFit`);
  event and rollup move together (`SumsFit`). `HeadIsReached`, from `HeadInv`, over the chain
  of revisions as it is: a version says what the database has (`Versioned`); two revisions are
  guarded by their first statement alone, so that their index is there whenever what it follows
  is, is still owed, or was cut off by a kill (`Paired`); and how far the pending revision has
  come says what it has brought (`Progress`). The schemas are a recursive function of the
  revision, which the module shows to exist before it uses it.
* `IdempotencyProofs`. `ClaimIsExclusive`, `ReplaysAreFaithful`, `AnswersAreBilledOnce`,
  `ClaimsAreSettled`, from one invariant. `Equipped`: a started request knows what it asks
  for. `Owner`: unless stolen, the running request is the one the record names. `Faithful`: a
  stored or pending answer is the one to its fingerprint. `Unmetered`: unless stolen or
  returned, a metered answer is pending or in the record. `Holding`: an in-progress record
  whose request still runs is held.
* `InferenceProofs`. `SlotsAreAccounted`, `PinsAreHonoured`, `BooksAreKept`, from one
  invariant. `Placed`: where a request's coroutine is says whether it has a slot, and at which
  replica. `Counted`: each replica's count is the number of requests there. `Stocked` and
  `Pinned`: whoever is to be forwarded has a candidate, and with a pin no other. `BookInv`:
  how far a request has come says which of its entries are made, under way, or lost.
* `RateLimitsProofs`. The chain of gates is taken apart once, into the platform's gates, the
  client's and the user's, which gives `PageTellsTheLimits` and `PlatformRefusalsAreFree`.
  `RefusalsAreEarned`, from `FairInv`: every counter holds what the requests of its window put
  there, a request half-way through a key that is counted twice included.
  `OvershootIsBounded`, from `WorkInv` and `MeterInv`: whatever a client has spent of a meter
  is on the counter, still to be charged, or was lost to a Redis error, and leaves room for a
  largest answer of every request that is past the meter's gate.
* `ManagerSyncProofs`. `CatalogueIsStable`: `ManagerSync` implements `StaticStability`. The
  initial states map to initial states; `Compose` and `RestoreFromSnapshot` map to `Learns`,
  `SaveSnapshot` to `Saves`, a restart and a change at a node to their namesakes, and every
  other step to a stutter. The invariant it needs is about time: nothing known or saved is
  ahead of its node, what the process knows of a node is no older than the disk's copy, and
  (`AnswersForward`) an answer waiting to be composed is no older than either. The last part
  covers the answers that come in after a cycle was given up for want of a token, while the
  disk's copy is being restored. `NothingIsLost`, from `Kept`: what a node on show last
  answered is in the catalogue until the next composition. `LoopIsPaced`, from `PaceInv`:
  `_held_last_request` is left over from an earlier cycle only while every node is being asked.
* `LifecycleProofs`. `RegistryStaysSound`: `RegistrySound` is inductive once the rows are
  typed. An operation of the lifecycle writes an instance row within its model or removes it
  (`RowKept`), which gives no model an instance; an edit that registers one needs a live model;
  `ArchiveCatalog` looks before it archives. What a handler has checked stays right until it
  writes (`Right`), as only a thread comes in between, and a thread names no model; but it may
  archive one, which is `overtaken`. `OneProcessEach`, from `Alone`, in which nothing is said
  of overlapping operations: a start that is to spawn has found no process, and is the only one
  that has, unless the instance is `doubled`. `ProcessesAreAccounted`, from the rest of
  `NodeInv`: two operations that conflict are at an instance only once it is `overlapped`
  (`Apart`); unless it is, from `Popen` until the job lets go of it, a job's instance has no
  process but the one it has in mind (`Minding`), those killed and no longer named left out
  (`Counted`); and a process that no start has yet to write down is found by its PID file or
  its command line, was killed, or is of an instance that a crash or an overlap excuses
  (`Traced`).
* `ServicesProofs`. Each theorem here, and of `GatewayProofs` but for the spend cap, is about a
  component by itself and about the composition that `services` runs, in which it is the
  component in focus. `SecretIsShownOnce`: a link is made once (`MadeOnce`); what visits and
  requests hold on to is made (`HoldsMade`); what an answer said of a link stays so
  (`AnswersTrue`), hence a visit that finds the secret was asked for before every such answer
  (`AskedBefore`); and the one request that is making a link has read every live one
  (`OneLive`). `OperatorsWordStands`: a request that nothing overtook writes back what is still
  in the row, but for what it means to change (`Current`), its age included.
  `RevocationStands`: an endpoint that is alone commits to the row that it read (`Alone`), and
  the key it writes then outlives the life, though not the leeway, of every token that was not
  issued behind its back (`Covered`). `RotationsSettle`: how old a copy of a retired key must
  be, wherever it is; it left the service before the rotation, was a `Delay` on its way to
  Redis, and was read from there before it expired (`FetchAged`, `SharedAged`, `OwnAged`).
  `BudgetsHold`: an attempt that is let in takes its share of the overdraft with it
  (`Budgeted`), and what the caller of a key that is just spent was told is the time its oldest
  failure has (`Promised`). `DownloadsAreSound`: until one of the two named escapes there is
  one task at most (`OneTask`); what the list says of the shards before and behind it
  (`Walked`), what it knows of the file it writes (`Fetched`), and that the list is true
  meanwhile (`ToldTrue`) and settled once the task is gone (`Settled`), unless it was lost to
  an error. `ChainIsSound`: a version is that of the table's shape, and a table without one is
  new in the hands of the boot that made it, or on its way from the first release to the
  baseline (`Unstamped`). The shapes are a recursive function of the number of migrations; the
  module shows that one exists before it uses it. `UpgradesAreSound`, of two processes: until
  there is a whole backup that nobody is about to write (`BackedUp`), the database itself has
  every model, and one process alone has come as far as the split (`NotYet`); with one process
  at a time, the place it has come to says what every file holds (`Whence`). Its hypothesis is
  needed: the manager's API and one command of the terminal UI are two processes, but with
  `Processes <- Three` in `services.cfg` TLC finds that three can lose the models: one
  truncates the backup that was missing when it looked, and another renames the third's still
  empty file over the database.

The type invariants of the first four modules are theorems (`TypeCorrect`); the types of the
others are parts of their invariants.

**Only model-checked:** the liveness properties `OpenIsProbed`, `HeldKeyIsFreed`,
`RequestsEnd` and `EventuallyFresh`: fairness and `ENABLED` are out of the prover's reach.
Every other property of a passing run is a theorem. TLC checked the invariants before they
were proved.

## 5. Abstractions

Named here because a reader of the code would ask.

* **Processes.** `Settings`, `Tiers` and `Ledger` have one gateway process, as the
  repository's scripts start it; the breaker, the keys and the spend cap have several
  workers. `ModelRegistry` has one manager process; a terminal UI that edits the same
  file at once is only in `RegistryUpgrade`.
* **Steps taken together.** What `start_instance` does before it spawns (the row, the
  scan, the free port and its write); the scan and the look at the PID file of a stop;
  removing a PID file and the marker beside it; the pipelines of one
  charge; the check and the load of `Tiers`; the load and the commit of the rollup's
  upsert; archiving a model and unlinking its files; unlinking and making a temporary
  database, and filling it; Alembic's batch of one column, which may copy the table.
* **Left out.** The error markers and discovery flags of a node, which no operation reads; two
  models that share a file, in `Downloads`, which is about one; PIDs are not reused and a child
  that exited is not a zombie; the write-ahead log of a database that was renamed; requests of
  a gather that an abort leaves running, whose results the next cycle overwrites; indexes of
  the baseline; PostgreSQL, where DDL is part of the transaction; a gateway that cannot reach
  Redis at the revocation check; a load of the split table that fails at start.
* **Data.** One day, client, kind and unit of usage in `Ledger`; one tier or none per
  client for the length of a run in `RateLimits`; one key published at a time in `Jwks`;
  two of the eleven columns of one revision in `GatewaySchema`. Ages are in ticks.

**Not modelled.** The user interfaces, telemetry and the audit trail (nothing depends
on them), the assistant's loop (one user, no shared state), configuration and engine
detection (parsing and probing without state), the translation of payloads, reporting
queries and exports (they only read), users of the auth service (writes of one row).

## 6. Plan

1. A lock per instance as an abstract specification of `Lifecycle`, which the code does not
   implement, with `doubled` and `overlapped` as the measure of what it would exclude.
2. The assistant's loop with a token that expires during a conversation.
