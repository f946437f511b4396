# nlqdb in TLA+

nlqdb answers questions about a database, and writes to it, in plain language.
A Cloudflare Worker (`src/apps/api`) turns a goal into SQL through a chain of LLM
providers, runs it on a hosted Postgres schema, and keeps its own books in D1
(SQLite), KV and Stripe; a second worker (`src/apps/events-worker`) drains its
event queue. This directory holds TLA+ models of the parts of those workers whose
correctness depends on what happens *between* two awaits, what TLC finds about them
on small instances, and what TLAPS proves for every instance.

Paths below are relative to the repository's `src/`; `api/` stands for
`apps/api/src/`.

    tlc -config PremiumRace.cfg MCPremiumMeter       # one run
    tlapm PremiumMeterProofs.tla                     # one set of proofs

`PROJECT.json` pairs every definition with the lines it models (`map`), every
run with its properties, every property of a passing run with a plausible bug
that breaks it (`mutants`), and every hazard with the properties that watch it. In
the newer modules the bug stands in the module itself, as an operator that nothing
uses, just before the one it varies.


## 1. Inventory

### 1.1 The setting

A request runs on a V8 isolate: JavaScript runs to the next `await`, so everything
between two awaits is atomic, and at each await other requests, of this isolate or
another, may run. There is no lock anywhere. What coordinates requests is
single-statement or single-batch atomicity of D1, Postgres transactions,
compare-and-swap on a hash, and Stripe's idempotency keys. KV has neither
transactions nor compare-and-swap. The platform may evict an isolate at any await,
`waitUntil` work included, and nothing of a request is persisted to resume from.

### 1.2 Components

| component (code) | state | operations | interacts with | hard behaviour | what makes it correct | module |
|---|---|---|---|---|---|---|
| hosted-premium meter (`api/billing/premium`) | D1 `premium_allowance_period`, `premium_meter_events`; Stripe meter and subscription item | lane decision, settlement, ledger insert, item create, meter report, reconciliation | `/v1/ask` before and after the LLM call; Stripe | check long before act; five separate writes in `waitUntil`, each may fail | overage counted once, ledger never behind Stripe, cap overshoot bounded, one metered item | **PremiumMeter** |
| ask pipeline (`api/ask/orchestrate.ts` and its helpers) | KV confirm stash, KV plan cache | preview hop, confirm hop, read hop, retry, repair | planner, tenant Postgres, widening | stash read, executed, then deleted; a cache all tenants share; retries around a non-idempotent write | what commits was previewed; a preview commits once; the shared cache ties nobody to another tenant's schema; every hop ends | **AskPipeline** |
| schema widening and structured insert (`api/ask/extend.ts`, `api/db-create/widen-provision.ts`, `api/insert`) | Postgres catalog, D1 `databases.schema_text/hash`, D1 `dba_changes` | observe, plan, DDL + row in one transaction, ledger, compare-and-swap | ask pipeline, planner | two stores written without a common transaction; writers race | D1 never ahead of Postgres, no lost update, no element widened for a write that failed | **SchemaWiden** |
| Stripe webhook and checkout (`api/stripe`) | D1 `customers`, `stripe_events` | checkout, five kinds of event | Stripe, events queue, premium meter (reads `customers`) | duplicated, reordered, concurrent deliveries; recorded before handled | each event acts once; row follows Stripe; customer link survives any order; conversion stamped once | **StripeBilling** |
| database creation and deletion (`api/db-create`, `DELETE /v1/databases`) | Postgres schema, role, grants and policy; D1 `databases`, `api_keys` | provision, roll back, retry on a name clash, mint a key, delete | sweep, adoption, ask | two stores; best-effort rollback | row and schema are one registry entry; a failed call costs one database at most | **DbLifecycle** |
| anonymous adoption (`api/anon-adopt*.ts`) and the ask path's access-list heal | D1 `anon_adoptions`, the rows above, the schemas' access lists | bind, migrate, adopt keys, re-point | creation, ask, sweep, reaper | four stores one after the other; a second user with the same token | one heir per token, who can then read | **DbLifecycle** |
| sweep and role reap (`api/db-sweep`, `api/scheduled`) | the same, and the cron's progress | evict idle anonymous databases, drop orphan roles | all of the above | reads a catalog, then a registry, then acts on both | every orphan role goes; a role in use is dropped only in known overlaps | **DbLifecycle** |
| events queue (`packages/events`, `apps/events-worker`) | Cloudflare queue, breaker counter in an isolate | emit, drain, ack, retry | webhook, ask | redelivery; three drains of a batch side by side, one ack | an acked message reached its sink; only that sink's failure re-drives | **EventsQueue** |
| LLM router (`packages/llm`, `api/llm-router.ts`) | breakers in an isolate | try the chain, race two, retry the tail, fall back from premium to free | every model call | results of one request meet breaker state another has moved | a call is lost only when the chain is exhausted; no provider paid twice | **LlmRouter** |
| gates: anonymous caps, mail throttle, account bucket, idempotency (`api/anon-*cap.ts`, `anon-*limit.ts`, `lib/kv-throttle.ts`, `idempotency.ts`, `ask/rate-limit.ts`) | KV counters and replays, one D1 bucket | peek, count, roll back, look up, store | the head of `/v1/ask`, `POST /v1/databases`, sign-in | read-modify-write on KV; the count committed after the work | caps hold but for races; nobody is locked out unserved; one mint per key | **Gates** |
| grants (`api/grant*.ts`) | D1 grants, Postgres roles | provision, use, revoke | database lifecycle | provisioning in two stores | a revoked grant reads nothing | not modelled yet |
| the rest: routing and prelude, SQL validators, recent tables, plan switch and portal, BYO connections, memory/run/chat/packs, workload analyser, HTTP surface, SDK, CLI, MCP, web | little or none of their own | | | | pure functions, one atomic statement, or clients of the API | not modelled, see section 7 |

### 1.3 How they interact

`/v1/ask` passes the gates, reads the `customers` row that the webhook writes, decides
a lane, runs the ask pipeline over the LLM router, settles the meter and reports the
overage in `waitUntil`. A confirmed INSERT that meets an unseen table leaves the
pipeline for the widening path, which moves `schema_hash`, which is half of the plan
cache's key. The webhook and the ask path emit to the queue. Creation, adoption,
deletion, the ask path's heal, the sweep and the reaper meet on the D1 `databases`
row and on the Postgres schema it names. Premium calls that fail fall back to the
free chain, whose breakers all requests of an isolate share.

The hazards, 44 of them with their lines, are in `PROJECT.json`; seven have no
property and say why: the code accepts what happens, or a guard of the database
settles it, or the two halves of it are in two modules.


## 2. Plan

| # | module | what it adds | status |
|---|---|---|---|
| 1 | PremiumMeter, PremiumMeterProofs | money: allowance, ledger, cap, Stripe | done; five theorems |
| 2 | AskPipeline, AskPipelineProofs | preview and commit | done; five theorems |
| 3 | SchemaWiden, SchemaWidenProofs | widening of a live schema | done; five theorems |
| 4 | StripeBilling, StripeBillingProofs | webhooks and checkout | done; four theorems |
| 5 | Ownership, DbLifecycle, DbLifecycleProofs | create, delete, adopt, heal, sweep, reap over two stores | done; five theorems, one a refinement |
| 6 | Gates, GatesProofs | counters, throttle, replay | done; four theorems |
| 7 | EventsQueue, EventsQueueProofs | delivery, one ack for several sinks, the breaker | done; four theorems |
| 8 | LlmRouter, LlmRouterProofs | chain, breakers, race, fall-back | done; five theorems |
| 9 | PremiumStripe | composes 1 and 4: the subscription id the metered item is aimed at after a late checkout event | later |
| 10 | Grants | grant and revoke beside deletion and adoption | later |

*Ownership* is the abstract specification of 5: databases that are there or not, with
one owner, created, deleted, bound, adopted and evicted in one step each. Two more
would be worth stating. *ApprovedWrite*: a register of approved statements,
each committed at most once, which AskPipeline implements as long as no two
confirms overlap. *MonotoneSchema*: a shape that only grows, read through a
lagging copy, which SchemaWiden implements with `catalog` and `text` as the two.

Every safety property of the passing runs is a theorem by now (section 5). What would be
worth proving next goes beyond them: that AskPipeline implements *ApprovedWrite* and
SchemaWiden *MonotoneSchema*, and, with module 9, that the metered item and the
row of `customers` name one subscription.

A passing run per module, plus one where liveness needs a smaller instance, and a
counterexample, from a run or by hand, for each sentence of the repository that the code
plainly contradicts in the state of a module: most often the very case that a passing
property has to set aside. The other disagreements are in section 6, in words.


## 3. The modules

In every module a step ends where the code awaits. A step named `...Fails`,
`...AnswerLost`, `Break` or `Die` is a failed call, a call whose effect happened and
whose answer was lost, or an evicted isolate; `MaxFaults` bounds how many there are.
Variables marked *history* in the source are not program state: they record what
a property needs to speak about the past, and no guard reads them.

### 3.1 PremiumMeter

One customer. `req[d]` is a premium-eligible `/v1/ask` request with the locals that
survive its awaits; `period` is the allowance row by billing period, `ledger` the
`premium_meter_events` row by dispatch id, `meter` what Stripe has accepted by event
identifier, `items` the metered items on the customer's subscriptions by idempotency
key.

| code | action |
|---|---|
| `index.ts` eligibility, `readAllowance`, `evaluateCap` + `resolvePreDispatchLane` | `ReadCustomer`, `Ineligible`, `ReadAllowance`, `DecideLane` |
| the LLM call, billed or not | `Dispatch`, `DispatchUnbilled` |
| `settlePremiumQuery` (one D1 batch), and its catch | `Settle`, `SettleFails` |
| `recordOverageLedger`, two statements | `InsertLedger`, `BumpSpent` |
| `ensurePremiumOverageItem`: its early returns, the subscription of the row, the item | `SkipItem`, `RetrieveItem`, `CreateItem`, `AttachFails` |
| `reportMeterEvent` and its catch | `ReportEvent`, `ReportFails`, `MarkReported`, `MarkFails`, `MarkError` |
| `reconcilePremiumMeter`'s sums | `StuckCents`, `Drift` |

`customers` is read by nothing else here, so `ReadCustomer` chooses what the
webhook may have left in it: any tier and policy, a period that only advances.
`RetrieveItem` reads the row again and may find another subscription. `SkipItem` is
the report of a deployment without an overage price, which `premiumConfigured` does not
require, or of a row without a subscription: no item, and the event ships all the same.
Two abstractions: the meter is live (`PREMIUM_METER_LIVE`; dark, the report stops
after the ledger), and a query costs `rate` cents per slot, which makes the
code's `costCents * overage / slots` exact. Rounding to cents is therefore not
covered.

### 3.2 AskPipeline

One goal, asked by several tenants whose databases share a schema hash. `stash` is
the confirm stash by tenant, `cache` the one plan-cache entry of the goal, `hop` the
requests, and `previews` (history) the statement each preview hop diffed. A
statement is its identity, whether it writes, and the physical schema its names carry:
`Normalised` is what `schemaRelativeSql` does to the last, which is to strip the
tenant's own schema and no other. A planner may name any schema; another tenant's stands
for all foreign ones, `information_schema` included. Only a cached plan is asked whether
it still names one (`Usable`). The initial cache may hold an entry of the time before
plans were normalised.

| code | action |
|---|---|
| request, early refusals | `Arrive`, `Refused` |
| stash lookup, cache lookup, plan + validate + intent check | `LookupStash`, `LookupCache`, `Plan`, `PlanRejected` |
| validator on stored plans, Defense A; read-only, expired and preview gates | `Unfit`, `Gate` |
| `buildDiff` refusing, stash write, `requires_confirm` | `NoPreview`, `WriteStash`, `WriteStashFails`, `Render` |
| exec loop, retry, repair | `ExecWrite`, `ExecRead`, `ExecTerminal`, `ExecUnreachable`, `ExecAnswerLost`, `Repair` |
| stash delete, cache write | `SpendStash`, `SpendFails`, `StorePlan`, `StoreFails` |
| TTLs | `ExpireStash`, `ExpireCache` |

The widen absorb of an INSERT is one outcome of `ExecWrite` here and the subject of
SchemaWiden. The verdicts of the SQL validators, the planner, the router and
Postgres are choices.

### 3.3 SchemaWiden

One hosted database. `catalog` is what Postgres has, `text` what
`databases.schema_text` says (and, since a schema only grows, its hash), `ledger`
how often each element was recorded in `dba_changes`. `Exec`/`Design` are the ask
path: the approved INSERT, then `extendSchema`, whose plan an LLM designs
from D1's stale text and which nothing ties to what Postgres has. `Observe` is the
insert path, which reads the catalog. Both meet in the transaction (`Commit`,
`Abort`, `RowsRefused`, `CommitAnswerLost`; refused rows are left out and the
rest run again, twice at most), and then `Record` and `Swap` run in
either order. Left out: the first-use key index and the lift of a sequence, which
touch no element and ride in the same transaction.

### 3.4 StripeBilling

One user, at Stripe (`session`, `sub`, `sent`), in D1 (`row`, `inbox`) and in the
webhook invocations (`inv`). Stripe is external and modelled by what it does:
sessions are paid or expire, subscriptions move along `Moves`, and any event sent
may be delivered at any time, any number of times. `Receive` is the idempotency
insert; `LookupFinds`/`LookupMisses`, `Link`, `Sync`, `MarkCanceled`, `Emit`, `Mark`
are the statements of the handlers in the order the code runs them. Left out: the
R2 archive, which nothing reads back; the fields that ride with `status`; and
subscriptions made in Stripe's dashboard, whose metadata carries no user.

### 3.5 DbLifecycle and Ownership

Hosted databases of anonymous and signed-in tenants. D1: `reg` the owner of each row,
`keys` the holders of a `pk_live` key, `adopter` the binding of a token. Postgres:
`policy` the tenant the row policies of a schema name (and so whether the schema is
there), `grants` whose role may use it, `roles` which roles exist. `job[j]` is a
request: what it does, for whom, on which id, and `aim`, the schema its compiled
statements name, which differs from its id after a clash of names. The initial state
has any set of whole databases.

| code | action |
|---|---|
| `orchestrateDbCreate`'s loop: new ids on a clash, gate, transaction, seed rows dropped on failure | `StartCreate`, `Gate`, `Clash`, `Provision`, `ProvisionAborts`, `PlanFails`, `ProvisionAnswerLost` |
| the registry insert, its rollback; the key | `Register`, `RegisterFails`, `RegisterAnswerLost`, `MintPkLive` |
| `DELETE /v1/databases/:id` (and the rollback): `dropSchemaAndRegistry`, keys | `Resolve`, `DropSchema`, `Unregister`, `DeleteKeys` |
| `recordAnonAdoption`, `retargetAdoptedSchemas` | `StartAdopt`, `Bind`, `Migrate`, `AdoptApiKeys`, `Retarget`, `RetargetFails` |
| `/v1/ask` on a hosted schema, `execWithTenantAclHeal` | `StartAsk`, `Exec`, `Heal`, `HealFails` |
| `sweepAnonDatabases` | `Sweep` |
| `reapTenantRoles` | `ReadCatalog`, `ReadRegistry`, `DropRole`, `DropRoleFails` |
| a call that throws, an isolate that dies | `Break` |

Two things are coarser than the code. The catalog read and the transaction of a
re-pointing (`anon-adopt.ts:122`) are one step, `RetargetAcl`: what the read lists is the
tables under the policy, and a schema here has one policy as a whole, so nothing that
this module holds can change in between but the schema's existence, without which the
transaction fails as well. A table that a widen adds in between is listed as a
hazard without a property. And a retry whose statements name the first schema goes as far as
`RlsFindsItsTables`: Postgres refuses it where it enables row security.

`Ownership` is what row and schema promise together. The refinement mapping takes a
database to be owned by `reg[d]` while its schema is there, and by nobody otherwise:
a creation takes place when its row is written, a deletion when its schema is dropped,
and the half-made and half-deleted states in between are stutters.

`odd` records three overlaps that no single request can see and after which weaker
guarantees hold: `reuse` (an id was minted again while a request about its
previous holder was under way), `overlap` (a creation for a device while its adoption
ran, or the other way round) and `straddle` (the reaper dropped a role between a
request's reading of the registry and its use of the role).

### 3.6 EventsQueue

Each message is unsent, lost, queued, taken, acked or dropped (`msg`); `inv[b]` is a
batch being drained, with the fingerprints in one Tinybird call (`log`), the
other messages one by one (`todo`, `cur`, `at`) and what is owed to PostHog (`hog`).
The three drains of a batch run side by side, as `Promise.all` runs them. `fails`
and `open` are the breaker of an isolate.

| code | action |
|---|---|
| `emit` | `Emit`, `EmitFails` |
| `drainQueryLog`, the breaker | `Deliver`, `WriteOk`, `WriteFails`, `WriteAnswerLost` |
| `drainToSinks`, `dispatchToSinks`: dunning email, then LogSnag | `Dispatch`, `Mail`, `MailFails`, `Page`, `PageFails`, `PageAnswerLost` |
| `drainToPostHog`, `publishToPostHog` | `Capture`, `CaptureFails` |
| the handler returns or the isolate dies; the queue applies acks, retries, `max_retries` | `Return`, `Die` |

The queue itself is Cloudflare's and external. Sinks are up or down by choice, and a
sink that has no credentials is one the code skips.

### 3.7 LlmRouter

`breaker` is the state the router of an isolate keeps per provider, `req[r]` an ask,
which performs up to `MaxOps[r]` operations one after the other.

| code | action |
|---|---|
| `dispatch`: skip the parked, call, walk on; the retry of the tail | `Dispatch`, `Answer`, `Retry`, `AnswerAgain` |
| `raceHedgedPair`: the head start, then the race of the first two | `Dispatch`, `HeadAnswer`, `Hedge`, `FirstLeg`, `SecondLeg` |
| `withFallbackRouter`: premium, then the free chain | `Answer`, `Fallback` |
| `updateBreakerFromResult`, `breakerOpen`, the eligible providers | `Landed`, `Updated`, `Up`, `Expire` |
| the caller: an operation lost, the next one (`withStageRetry`), the end | `Fail`, `Finish` |

Time is abstracted: an attempt ends when it ends, and the window of an open breaker
ends at any moment (`Expire`), a premium one's too; only the half hour of refused
premium credentials outlasts the ask. `late` and `lapsed` (history) tell who had a
provider in hand when it was barred, and whether such an ask's result has ended the bar.
No caller passes an abort signal and every provider of a
chain is registered, so those branches are left out. A premium router is made per ask
and has one provider, named after the ask here, and no race.

### 3.8 Gates

`count` is what each counter holds, `stored` the replay of each `Idempotency-Key`;
`req[r]` is a request at one of three gates. Each get and each put of KV is a
step of its own; the account's bucket is one D1 statement and one step.

| code | action |
|---|---|
| the head of an anonymous `/v1/ask`: global peek, address bucket, device peek, `record()` in `waitUntil`, the work, `commitAnonCreate` | `AskAnon`, `PeekGlobal`, `CheckQuery`, `CountQuery`, `PeekDevice`, `RecordGlobalRead`, `RecordGlobal`, `Serve`, `ServeFails`, `RecordDeviceRead`, `RecordDevice` |
| `sendMagicLink` over the throttle: consume, send, roll back | `AskMail`, `TryConsume`, `Consume`, `FailOpen`, `Send`, `SendFails`, `RollbackRead`, `Rollback` |
| `POST /v1/databases` with a key: lookup, bucket, create, store in `waitUntil` | `AskKeyed`, `IdempotencyLookup`, `CheckAccount`, `Mint`, `MintFails`, `MintUnstored`, `IdempotencyStore` |
| TTLs and buckets of time; failures | `Expire`, `ExpireReplay`, `Break` |

KV is external and modelled as one copy: its replicas may lag a minute behind, which
can only widen the windows that `raced` and `crossed` name.


## 4. What the runs show

Runs that pass. State counts are of distinct states.

| run | shows | instance |
|---|---|---|
| `premium_race` (4.00 M) | `OverageExact`: concurrent settlements hand out exactly the slots past the allowance. `LedgerAheadOfStripe`: no charge at Stripe without its ledger row. `CapOvershootBounded`: the cap's input lags by at most one dearest query per request in flight. `BooksBalance`: one metered item per subscription, spend never ahead of the ledger, and, if nothing failed, the item on the subscription that a charge's report found and all books equal at rest | 3 requests, 2 in flight, 2 tiers, 2 periods, 2 subscriptions, 1 fault; allowances 1 and 3 and queries of 1-2 slots, so a query lands before, across and after the end of an allowance |
| `ask_pipeline` (785 k) | `CommitsWerePreviewed`, `SerialConfirmsCommitOnce`, `ReadOnlyTouchesNoPreview`, `SharedPlansArePortable`: what is cached is not tied to the tenant that cached it, and a hit names no schema | 3 hops of 2 tenants, 2 in flight, 2 attempts, 1 fault, 1 read and 2 writes, each over 3 schemas: two of preview, confirm and a third hop that interferes are under way at a time (all three together, with a planner that may name any schema, take TLC a quarter of an hour and more) |
| `ask_termination` (40 k) | `HopsTerminate` under `FairSpec` | 2 hops, 3 attempts, the code's `RETRY_MAX_ATTEMPTS`, 1 fault |
| `schema_widen` (173 k) | `TextNeverAhead`, `TextOnlyGrows`, `WidenedOnlyForLandedRows`, and `QuietStoresAgree`: at rest the ledger has each element once and, after widens that never overlapped, text is catalog | 3 writers at once, a table and a column, 1 fault; the attempts (2) and re-runs (2) are the code's |
| `stripe_billing` (1.37 M) | `EventsActOnce`, `SettledEventsConverge`, `ParallelNeedsAnUnseenCheckout` | 2 subscriptions, 5 events, 2 invocations, 1 fault |
| `db_lifecycle` (844 k) | `StoresAgree`: the two stores disagree on one database at most for each failure, beyond what a request under way or the sweep accounts for. `OwnersAreServed`: at rest and without faults an owner can query. `ReadersAreHeirs`: whoever can read was entitled to, whatever fails. `ImplementsOwnership`: the refinement | 2 ids, 1 device, 2 users (who race for it), 2 requests, 3 tries (the code's), 2 faults |
| `db_reap` (3.2 k) | `OrphanRolesGo` under `FairSpec` | 2 ids, 1 device, 1 user, 1 request, 2 tries |
| `events_queue` (1.77 M) | `EveryMessageIsAccountedFor`, `AckedMeansDelivered`, `OnlyTheOwningSinkRedrives` | 2 fingerprints and 1 failed payment in 2 batches, 1 isolate, 1 retry, 1 fault; LogSnag alone, PostHog alone or both beside Tinybird and Resend; the breaker opens after 2 failures (5 in the code) |
| `llm_router` (877 k) | `LostMeansExhausted`, `RetriesCostOnce`, `RefusalIsLoud`, `BarsHold` | 2 free providers; a paying ask of 2 operations beside a free one of 1, threshold 2 |
| `gates` (1.21 M) | `CapsHoldUnlessRaced`, `NobodyIsLockedOut`, `KeyMintsOnce` | 3 requests of any kind, 1 device, 1 address, 1 mail, 1 key; device limit 1 (the code's), others 2; 1 fault |

Each passing run but the two with liveness also checks its module's `TypeOK`.

Runs that find a disagreement between the code and a sentence of the repository.

| run | sentence | what happens |
|---|---|---|
| `ask_intent` | `orchestrate.ts:391`: "a write goal that planned as a read would otherwise execute as a SELECT and silently drop the mutation" | the check is on the planner's path; a cached read of the same goal is executed |
| `llm_hedge` | `types.ts:81`: `hedge_lost` is "kept distinct from `timeout` so the circuit breaker doesn't trip the loser on a successful hedge" | the providers turn the abort into a timeout, network or parse error of their own before the router classifies it; three lost races open the breaker of a healthy provider |

Seven more such sentences are stated in the modules and have a configuration each. They
are no runs of `PROJECT.json`; `tlc -config AskReplay.cfg MCAskPipeline`, for one, prints the
counterexample within seconds, and the others likewise with the `MC` module of the
property's module.

| property | sentence | what happens |
|---|---|---|
| `CachedPlansArePortable` (`AskCache.cfg`) | `orchestrate.ts:379`: "normalise to schema-relative form BEFORE validate so the SQL we validate, exec, and cache is portable" | only the tenant's own schema is stripped; a plan over `information_schema` is executed and cached with its name, and every hit on it is then refused |
| `ApprovedStatementRunsOnce` (`AskReplay.cfg`) | `confirm-stash.ts:16`: the commit hop deletes the stash "so a re-sent confirm (double-click, client retry after the response was lost) can never replay the same approved statement" | a second confirm reads the stash before the first one deletes it |
| `LostSwapsAreMadeUp` (`SchemaSwap.cfg`) | `db-registry.ts:71`: after a lost compare-and-swap "the caller re-reads and re-observes" | no caller does; the column of the lost swap stays out of D1, for the next write that needs it finds it in the catalog |
| `StatusInAnyOrder` (`StripeOrder.cfg`) | SK-STRIPE-012: "the webhook pipeline is order-independent" | the link is; a cancellation that overtakes its `created` finds no row and is dropped, and the row says active |
| `MistakenReapsHeal` (`DbStraddle.cfg`) | `role-reap.ts:9`: "reaping a live role by mistake (a create racing this read) is self-healing" | the tenant's other creation makes the role again, so no query of the first database misses it, and nobody gives it its grant back |
| `BreakerResetsOnSuccess` (`EventsBreaker.cfg`) | `query-log.ts:17`: "the breaker resets on the first successful write" | a success resets the count only; the write that was out when the breaker opened succeeds, and it stays open |
| `BarsHoldForTheirWindow` (`LlmBar.cfg`) | `router.ts:364`: a 429 is to "open the breaker immediately [...] for the server's `Retry-After` window" | a success of a call that began before the 429 closes it |

The passing properties next to all of these say what holds all the same: an approved statement
runs once per confirm that no other overlaps, a text that lags never loses what it has,
the status is right when events come in order, an owner is served unless the reaper took a role in
use, no fingerprint is dropped before a breaker has opened, and only a call that was out
at the time ends a bar.

**Bounds.** Every property here is violated, with the bug of its mutant in place,
inside the bounds of its own run, so the bounds are large enough for the case each
property is about. Two actors are needed for a race, a third to interfere with
what the two have agreed on; one fault is enough where no code path handles a
second failure differently from the first, but for thresholds, which are made small
enough to be reached; `db_lifecycle`, whose claim is about their number, has two. In `db_lifecycle` two requests run beside the sweep and
the reaper, which makes four actors. `MaxInFlight`, `MaxEvents`, `MaxSlots`,
`MaxPeriod`, `MaxBatch`, `MaxOps` only bound, and guard nothing the code does not.
Symmetry is over requests, tenants, users, ids, writes or invocations where no
definition tells them apart, and only in runs without liveness. Deadlock is not
checked: requests are finite in number, and when all have been answered the system
rests.

**Fairness.** `AskPipeline!FairSpec` has weak fairness of `Step(h)` for each hop,
that is, the worker keeps running a request it has accepted. The runtime gives that
(every awaited call settles or times out), unless the isolate dies, which is
`Die` and ends the hop too. `DbLifecycle!FairSpec` has the same for each accepted
request, and weak fairness of the reaper, which the cron starts every hour. It
assumes the reaper is switched on (`TENANT_ROLE_REAP=1`) and that a batch takes
every role; the code takes the first 40 of the catalog's order in each run, so that
40 roles that can never be dropped, at the head of that order, would keep it from the
rest. Nothing is assumed of clients, planners, queues, providers or databases:
`Step(h)` may take the failing branch each time.


## 5. What is proved

By TLAPS, for any number of requests, tenants, ids, tiers, limits, prices and faults,
from the named assumptions of the modules on their constants and the library's facts
on finite sets, sequences and well-founded orders, and nothing else: 37 theorems in
eight modules, which take in every safety property of the passing runs. The assumptions
say that constants are of their kind, that names which share a set do not collide, that
bounds are not zero, and, where something is counted or summed, that it is finite
(`DispatchesAssumption`, `SubsAssumption`).

TLC checked each inductive invariant below on the instance of its run before it was
proved. Most proofs about more than one property first sort the actions into a few
*kinds of step* (`Turn`, `Moved`, `Wrought`), each saying what a step does to its own
request and to the stores and that it leaves the other requests alone; the invariants
are then carried over the kinds.

`PremiumMeterProofs`:

- `TypeCorrect`: `Spec => []TypeOK`.
- `OverageIsExact`: `Spec => []OverageExact`. The property is not inductive: a
  period nobody has opened has no total yet, so `OverageInv` adds that an unopened
  row is all zero. `SettlementGrowsExcess` is the arithmetic of one batch:
  what it hands out is what it adds to the excess, also when a query straddles the
  end of the allowance, because it charges against the state of the row inside the
  batch and not against what was read before the dispatch.
- `LedgerLeads`: `Spec => []LedgerAheadOfStripe`. The inductive `ReportInv` adds
  `ReportOrder`, which says at each program point of the report what the request
  may rely on: a row from `spent` on, no charge before `report`, a charge of the row's
  cents at `mark`.
- `CapIsBounded`: `Spec => []CapOvershootBounded`, and `BooksAreBalanced`:
  `Spec => []BooksBalance`, by one invariant, `MeterInv`. The cap compares a sum of the
  past with a limit, so the bound has to be about what is still to come: `Capped`
  says of every period that its spend *and one dearest query for each request past
  the check* stay below the cap and one for each request that may be in flight. A
  request is admitted below the cap, when they are at most `MaxInFlight` (`Busy`);
  adding its charge to the spend gives up one of them, and `Priced` bounds the charge.
  `Balanced` says that spend and rows about to be added to it come to what the ledger
  holds. The sums are the community modules' `SumFunctionOnSet`, which folds in an
  order nobody chose. That the order does not matter, and what a sum becomes when a
  member is added or changes, is proved here (`FoldExists` to `TotalBound`), by
  well-founded induction on the subsets of a finite set with the claim given as a
  set (`SubsetInduction`): the library's induction theorems, which take the claim as
  an operator, cannot be instantiated by the provers at hand.

`AskPipelineProofs`:

- `HopsTypeCorrect`: `Spec => []TypeOK`, and `OnlyPreviewsCommit`:
  `Spec => []CommitsWerePreviewed`, by one invariant, `IInv`. A commit is far from its
  preview: another hop, an arbitrary time, a stash in between. `Bound` says of
  the stash, and of every hop that took its plan from it, that the plan is one that
  a hop of the same tenant diffed; that a hop that has not previewed has no entry
  in `previews`, so the two hops differ and no later preview rewrites an old
  one; and that a write is at `exec` only with a plan from the stash. The steps
  fall into three lemmas: those that neither preview nor commit (`QuietStep`),
  `PreviewStep` and `CommitStep`. The argument does not depend on the TTLs,
  on the number of confirms in flight or on what the planner answers.
- `PlansArePortable`: `Spec => SharedPlansArePortable`, and `ReadOnlyLeavesPreviewsAlone`:
  `Spec => ReadOnlyTouchesNoPreview`, two action properties from `Portable`, whatever schema
  a planner names: what has passed the gate does not name its own tenant's schema
  (`NormalisedIsOwnFree`), names none at all when a hit supplied it, and does not write under
  a read-only key; and what the stash holds for a tenant was at the gate before.
- `ConfirmsCommitOnce`: `Spec => []SerialConfirmsCommitOnce`. Between the commit and
  the deletion of the stash the preview is still there to be confirmed again.
  `Paid` counts, for each preview, its commits against the faults, with one less
  allowed while another commit may follow (`Due`: a confirm has the preview in hand, or
  the stash has it and no confirm is about to delete it); `Lone` is what
  confirms that do not overlap give.

`SchemaWidenProofs`:

- `ShapesTypeCorrect`: `Spec => []TypeOK`.
- `D1NeverLeads`: `Spec => []TextNeverAhead` (invariant `BehindInv`), and `SchemaNeverShrinks`:
  `Spec => TextOnlyGrows`. What a request resolved, and, once its transaction has
  committed, what it planned, is in the catalog, and the catalog only grows; the
  swap writes the union of the two, and only over what it resolved.
- `WidenedForLandedRows`: `Spec => []WidenedOnlyForLandedRows`, by `Brought`: the catalog
  *is* the union of what landed rows brought, no two of them brought the same element,
  and a landed writer's plan is frozen.
- `StoresAgreeWhenQuiet`: `Spec => []QuietStoresAgree`. `Recorded`: without faults the
  ledger has each element of the catalog once, but for those a writer owes it.
  `Synced`: while nothing has failed or overlapped, the one writer in flight has D1's
  text in hand, which lacks at most what that writer is about to append.

`DbLifecycleProofs`:

- `LifecycleTypeCorrect`: `Spec => []TypeOK`. The inductive `Typed` adds `Wf`, what
  each program point says of a request's fields: whose it is, and whether its `db` is
  an id or a token.
- `RowAndSchemaAreOne`: `Spec => ImplementsOwnership`, the refinement. Each action is
  a step of `Ownership` or a stutter under the mapping of 3.5: `OwnOne` and
  its companions `OwnMigrates`, `OwnSweeps`, `OwnBinds` and `OwnRetargets` say which
  change of row or schema is which abstract step. It needs one invariant, `Bound`: a
  request past the binding acts for the user the token is bound to, so that the
  migration is `Adopt` and never a change of owner the binding does not know. It holds under every
  fault and overlap, ids minted again included.
- `OnlyHeirsRead`: `Spec => []ReadersAreHeirs`. What row, grant and policy let in at
  one moment is the work of several requests at several earlier ones; the inductive
  `Heirs` says that whatever *can still be* put into either store for a database, by
  any request at any program point, names an heir. `HeirsFrame` carries it over the
  steps that take up no new claim; `HeirsCommit` and `HeirsMigrate` are those that do.
- `RowAndSchemaAgree`: `Spec => []StoresAgree`, for any number of faults. `Paired` says
  which request a database without its other half belongs to: a create between its
  schema and its row has the database to itself, and what is being unregistered has
  no schema. `Counted` is the bound: a step adds a database to the lost ones only when
  it is a fault, and then one.
- `OwnersServed`: `Spec => []OwnersAreServed`. The property is about rest, and the
  invariants say what every moment lacks of it. `Serving`: each row's owner has
  role, grant and policy, or a request that will see to it is under way (`Coming`).
  `Keyed`: each key is the owner's, or the adoption that moves it is under way. They
  need `Named`: what a request has in hand is its user's until it is gone.

`StripeBillingProofs`, by one invariant, `IInv`:

- `Types`: `Spec => []TypeOK`.
- `ActsOnce`: `Spec => []EventsActOnce`. `Once`: an event is held by one invocation
  at most, and where that invocation is says what has been done of the event, so a
  second delivery, which finds the row, never takes over. `Orphaned` pays for each
  event recorded and dropped with a fault.
- `Converges`: `Spec => []SettledEventsConverge`. `Told` is what Stripe owes its
  listener: the first event of a subscription is its creation, the last says how it is.
  `Current`: the row has the status of the last event applied and the first paying one,
  which needs `InOrder` and `InTurn` (events are applied as sent, one
  subscription after the other) only where the property does; `Shared`, one
  customer behind the row and all that may bill, needs neither.
- `OneAtATime`: `Spec => []ParallelNeedsAnUnseenCheckout`, from `InTurn`,
  which rests on `Current`: a session is opened only beside a row that says the last
  subscription is over, and short of an unseen one the row knows.

`EventsQueueProofs`, by one invariant, `IInv`:

- `Types`: `Spec => []TypeOK`; its counters are bounded by what is proved here.
- `Accounted`: `Spec => []EveryMessageIsAccountedFor`. `Slots` and `Placed`: the messages
  out are those held by the batches, no message by two, and within a batch each in
  one place. Three drains move them about independently.
- `AckedIsDelivered`: `Spec => []AckedMeansDelivered`, by `Acks`, which says it of a
  message from its place in the batch's ack list on, and `Breaker`: a breaker counts
  no failure that did not happen.
- `OwnersRedrive`: `Spec => []OnlyTheOwningSinkRedrives`. `Counted` bounds what a sink
  has of a message by how often it was handed out, less this time while the call is
  to come; `Quiet`: what met no trouble is neither owed a retry nor was retried.

`LlmRouterProofs`, by one invariant, `IInv`:

- `Types`: `Spec => []TypeOK`.
- `Exhausts`: `Spec => []LostMeansExhausted`, and `CostsOnce`: `Spec => []RetriesCostOnce`.
  `Placed` says where in its chain an operation is, and `Walked` what lies behind it:
  down to there each provider was called or found parked, beyond it none was called,
  and none but the last was called twice. A race is at two places, with only parked
  ones between. `Billing`: premium usage is reported at the end of the premium part.
- `RefusalsAreLoud`: `Spec => []RefusalIsLoud`, by `Refused`: refused credentials keep
  the ask's own breaker open and the ask out of the free chain.
- `BarsAreKept`: `Spec => []BarsHold`. With `IInv` the property is inductive (`BarsInv`
  adds only the type of `late`): an ask takes up a provider only where it looks at its
  breaker (`OntoHand`), so that whoever has a barred one in hand had it before, and a
  result which closes the breaker of a bar comes from one of those (`BarsStep`).

`GatesProofs`:

- `GatesTypeCorrect`: `Spec => []TypeOK`, which for this module includes that the
  address bucket and the mail counters never pass their limits, whatever races: a
  writer writes one more than a value it saw below the limit (`Wf`).
- `FirstCreateIsFree`: `Spec => []NobodyIsLockedOut`, by `Served`: a request that is
  about to count a device has served it.
- `OneMintPerKey`: `Spec => []KeyMintsOnce`, by `Once`: of an uncrossed key at most
  one request is out, and while nothing is stored and no one is out, mints
  are paid for by failures.
- `CapsHold`: `Spec => []CapsHoldUnlessRaced`, by `Fits`, one conjunct for each kind
  of counter. A counter that is committed after the work lags by what is owed to it: by
  one where a single request may be between read and write (`GlobalFits`,
  `DeviceFits`), by the number of mails being given back for the throttle
  (`MailFits`), which counts before it sends.

Only model-checked: what rests on fairness, which TLAPS cannot reason about
(`HopsTerminate`, `OrphanRolesGo`). The nine properties the code violates
(section 4) have a counterexample and no theorem.


## 6. Where the code and its sentences part

Nine disagreements have a counterexample (section 4). The others met while modelling are given
here in words. What they do to the state is in the modules, except where marked
*outside* (what an answer to a client says is in none); the properties are stated so
as to say what does hold beside them.

Billing and Stripe. `billing/premium/overflow.ts:4` promises that a request with
allowance left is not metered; `allowance.ts:67` settles against the row's total, which
is that of the tier that opened the period, so after an upgrade the lane decision sees
allowance left and the settlement bills overage. `fallback-router.ts:17` calls a
fallback "unmetered and never charged", but the premium provider reports its usage
(`openai-compatible.ts:186`) before its content is parsed, so an answer that does not
parse is charged and then served by the free chain. `webhook.ts:23` offers Stripe's
"Resend" for a failed dispatch, which `webhook.ts:177` answers as a duplicate.
Beside what `StatusInAnyOrder` shows, an `updated` that overtakes its `created` is
overwritten by the older snapshot.

Ask. Beside what `ApprovedStatementRunsOnce` shows, a write whose answer is lost after the commit is
retried (`orchestrate.ts:624`) by the same confirm. `confirm-stash.ts:2`: "the committed
statement is the previewed statement"; the key names the goal and not the preview,
so a second preview replaces the statement under a dialog that is still on screen.

Databases. After a clash of names an inferred plan is provisioned with statements
that name the old schema (`db-create/orchestrate.ts:262`), which fails each time: the
retry can only serve presets. `neon-provision.ts:297` answers `rolled_back: true` also
when the rollback failed. Two deletions of one database that straddle a creation with the
same id drop the new schema; a deletion while the key is being minted leaves
a key of nothing. Beside what `MistakenReapsHeal` shows, a database whose re-pointing
failed while its user's role exists, because of another database, stays unreadable
to its owner, and an anonymous query in flight over adoption and reap heals the policy
back to the device.

Router, gates. A keyed create stores its replay in `waitUntil`: until then
the key mints again (`crossed`). `commitAnonCreate` throwing (`index.ts:1022`)
turns a database that was created into a 500. *Outside* the models, which have no
clock: `kv-throttle.ts:89` says the TTL goes on from the consume; a put restarts it.

## 7. What is not modelled

The `note` of each component in `PROJECT.json` has its reason; in short:

- *Pure functions*, whose verdict a module takes as a choice: the SQL validators and
  their parser, routing and prelude, schema inference and compilation, the formatting
  of the usage page, the provider clients' prompts and parsing.
- *One atomic statement or a list whose races the code accepts*: recent tables, the
  portal, plan switching (a per-isolate cache of one Stripe id), the anonymous prompt
  stash, the reports among the scheduled jobs, the workload analyser.
- *Thin sequences over parts that are modelled*: memory, run, chat, pack runner.
- *Next in the plan*: grants, bring-your-own connections, and the composition of the
  meter with the webhook.
- *Clients and sites*: the SDK, CLI, MCP servers, web application and email router.
  They hold no state of the system.

Left out of components listed as partly modelled: the lift of a sequence and
the first-use key index (insert, widening); embedding and the recent-tables list
(creation); the credential formats and the sessions, which a library keeps (keys); the
routes of `index.ts` that only parse and format.

The map names about 5000 lines, a small part of the implementation. Most of the rest is
web pages and their data, SDK types, parsers, prompts and telemetry, and the
clients of other services; what they decide enters the modules as a choice, and a
module of them would restate one function at a time.
